---------------------------- MODULE Spec2Model ----------------------------
(***************************************************************************)
(* A model of the geojson package: coordinates, linear rings, the geometry *)
(* variants with their validating constructors and coordinate-builders,    *)
(* and the GeometryObject decode dispatcher.                               *)
(*                                                                         *)
(* Numbers are float64 in the source.  The model draws them from small     *)
(* sets of integers, on which every float64 operation the source performs  *)
(* (comparison, product, sum, halving of an even sum) is exact.            *)
(*                                                                         *)
(* An error value is the chain of its wrappers, outermost first, ending    *)
(* in the sentinel error: fmt.Errorf("...: %w", err) prepends one layer.   *)
(* The nil error is the empty chain.                                       *)
(***************************************************************************)
EXTENDS Integers, Sequences, FiniteSets, TLC

VARIABLES
    op,      \* name of the last operation called ("init" before any call)
    arg,     \* the argument the caller passed to it (as it was at the call)
    out,     \* the value it returned (NoValue when it returned nil)
    err,     \* the error it returned (an error chain, <<>> for nil)
    caller,  \* the caller's own slice after the call (shares its backing
             \* arrays with what was passed in, so in-place changes show)
    recv     \* the receiver the decode methods are called on

vars == <<op, arg, out, err, caller, recv>>

-----------------------------------------------------------------------------
(* Errors                                                                  *)

NoError == <<>>

ErrLongitudeRange == <<"ErrLongitudeRange">>

ErrLatitudeRange == <<"ErrLatitudeRange">>

ErrCoordinatesSize == <<"ErrCoordinatesSize">>

ErrInvalidCoordinates == <<"ErrInvalidCoordinates">>

ErrInvalidTypeField == <<"ErrInvalidTypeField">>

ErrGeometryNotDefined == <<"ErrGeometryNotDefined">>

ErrGeometryTypeMismatch == <<"ErrGeometryTypeMismatch">>

ErrLinearRingSize == <<"ErrLinearRingSize">>

ErrLinearRingClosed == <<"ErrLinearRingClosed">>

ErrPolygonLinearRingCount == <<"ErrPolygonLinearRingCount">>

ErrLineStringTooShort == <<"ErrLineStringTooShort">>

ErrMultiLineStringTooShort == <<"ErrMultiLineStringTooShort">>

ErrGeometryCollectionBuildCoordinates == <<"ErrGeometryCollectionBuildCoordinates">>

\* fmt.Errorf(msg + ": %w", e)
Wrap(msg, e) == <<msg>> \o e

\* errors.Is(e, sentinel): the chain of e ends in the sentinel.
ErrorIs(e, sentinel) == Len(e) > 0 /\ e[Len(e)] = sentinel[1]

\* What a function returning (value, error) returns.
NoValue == <<>>

Ret(v, e) == [val |-> v, err |-> e]

\* x := v followed by F(x): v is evaluated once and F reads its value.
Bind(v, F(_)) == CHOOSE r \in {F(x) : x \in {v}} : TRUE

-----------------------------------------------------------------------------
(* Coordinates (coordinates.go)                                            *)

LongitudeMin == -180

LongitudeMax == 180

LatitudeMin == -90

LatitudeMax == 90

idxCoordsLng == 1

idxCoordsLat == 2

idxCoordsAlt == 3

coordsMinLen == 2

coordsMaxLen == 3

\* validateCoordinates with exclusive bounds.
validateCoordinates_exclusive(longitude, latitude) ==
    IF longitude <= LongitudeMin \/ longitude >= LongitudeMax
    THEN ErrLongitudeRange
    ELSE IF latitude <= LatitudeMin \/ latitude >= LatitudeMax
         THEN ErrLatitudeRange
         ELSE NoError

validateCoordinates(longitude, latitude) ==
    IF longitude < LongitudeMin \/ longitude > LongitudeMax
    THEN ErrLongitudeRange
    ELSE IF latitude < LatitudeMin \/ latitude > LatitudeMax
         THEN ErrLatitudeRange
         ELSE NoError

\* NewCoordinates(v []float64) (*Coordinates, error)
NewCoordinates(v) ==
    IF Len(v) # coordsMinLen /\ Len(v) # coordsMaxLen
    THEN Ret(NoValue, ErrCoordinatesSize)
    ELSE Bind(validateCoordinates(v[idxCoordsLng], v[idxCoordsLat]),
              LAMBDA e :
            IF e # NoError
            THEN Ret(NoValue, Wrap("invalid coordinates", e))
            ELSE Ret([i \in 1..Len(v) |-> v[i]], NoError))

Longitude(c) == c[idxCoordsLng]

Latitude(c) == c[idxCoordsLat]

HasAltitude(c) == Len(c) = coordsMaxLen

Altitude(c) == c[idxCoordsAlt]

\* slices.Compare(a, b): -1, 0 or +1, elements first, then lengths.
RECURSIVE slicesCompare(_, _)
slicesCompare(a, b) ==
    IF Len(a) = 0 \/ Len(b) = 0
    THEN IF Len(a) < Len(b) THEN -1 ELSE IF Len(a) > Len(b) THEN 1 ELSE 0
    ELSE IF Head(a) < Head(b) THEN -1
         ELSE IF Head(a) > Head(b) THEN 1
         ELSE slicesCompare(Tail(a), Tail(b))

\* A comparison of the components both coordinates have.
IsEqual_commonPrefix(c, v) ==
    \A i \in DOMAIN c \cap DOMAIN v : c[i] = v[i]

\* Coordinates.IsEqual
IsEqual(c, v) == slicesCompare(c, v) = 0

-----------------------------------------------------------------------------
(* Linear rings (linear_ring.go).  A Vertices or LinearRing value is the   *)
(* sequence of its coordinates; a method that changes the ring in place is *)
(* modelled by the new contents of the ring's backing array.               *)

LinearRingMinimumSize == 4

HasValidSize(lr) == Len(lr) >= LinearRingMinimumSize

IsClosed(lr) ==
    IF Len(lr) = 0 THEN FALSE
    ELSE IsEqual(lr[1], lr[Len(lr)])

\* The arithmetic of signedArea is float64 arithmetic: the result of every
\* multiplication, subtraction and addition is rounded to the nearest value
\* the format holds, ties to the even one.  The model's format has
\* MantissaBits significant bits where float64 has 53, and its values are
\* integers.
MantissaBits == 6

RECURSIVE Pow2(_)
Pow2(n) == IF n = 0 THEN 1 ELSE 2 * Pow2(n - 1)

\* The spacing of the format's values around a magnitude a.
RECURSIVE Spacing(_, _)
Spacing(a, s) ==
    IF a < Pow2(MantissaBits) * s THEN s ELSE Spacing(a, 2 * s)

RoundFloat64(x) ==
    LET a    == IF x < 0 THEN -x ELSE x
        s    == Spacing(a, 1)
        q    == a \div s
        r    == a % s
        up   == 2 * r > s \/ (2 * r = s /\ q % 2 = 1)
        m    == IF up THEN (q + 1) * s ELSE q * s
    IN  IF x < 0 THEN -m ELSE m

\* The loop of signedArea without the last pair of vertices.
RECURSIVE shoelace_noClosingPair(_, _, _)
shoelace_noClosingPair(ring, i, v) ==
    IF i > Len(ring) - 2 THEN v
    ELSE shoelace_noClosingPair(ring, i + 1,
            RoundFloat64(v + RoundFloat64(
                RoundFloat64(ring[i][idxCoordsLng] * ring[i + 1][idxCoordsLat])
              - RoundFloat64(ring[i + 1][idxCoordsLng] * ring[i][idxCoordsLat]))))

\* The loop of signedArea: v += x1*y2 - x2*y1 for i = 0 .. len-2, from v as
\* it stands at index i.
RECURSIVE shoelace(_, _, _)
shoelace(ring, i, v) ==
    IF i > Len(ring) - 1 THEN v
    ELSE shoelace(ring, i + 1,
            RoundFloat64(v + RoundFloat64(
                RoundFloat64(ring[i][idxCoordsLng] * ring[i + 1][idxCoordsLat])
              - RoundFloat64(ring[i + 1][idxCoordsLng] * ring[i][idxCoordsLat]))))

\* v * 0.5: the rings of the model lie on even coordinates, so that every
\* term of the sum is a multiple of 4 and the halving is exact.
signedArea(ring) == shoelace(ring, 1, 0) \div 2

IsCounterClockwise(lr) == signedArea(lr) > 0

IsClockwise(lr) == ~IsCounterClockwise(lr)

Area(lr) == IF signedArea(lr) < 0 THEN -signedArea(lr) ELSE signedArea(lr)

\* slices.Reverse
slicesReverse(s) == [i \in 1..Len(s) |-> s[Len(s) + 1 - i]]

\* A reorientation that reverses whatever the ring's orientation.
EnsureOrientation_alwaysReverse(lr, shouldBeCounterClockwise) ==
    slicesReverse(lr)

\* LinearRing.EnsureOrientation: the ring's contents after the call.
EnsureOrientation(lr, shouldBeCounterClockwise) ==
    IF shouldBeCounterClockwise = IsCounterClockwise(lr)
    THEN lr
    ELSE slicesReverse(lr)

\* NewLinearRing without the closure check.
NewLinearRing_noClosedCheck(vertices) ==
    IF ~HasValidSize(vertices) THEN Ret(NoValue, ErrLinearRingSize)
    ELSE Ret(vertices, NoError)

\* NewLinearRing(vertices): the ring shares the vertices' backing array.
NewLinearRing(vertices) ==
    IF ~HasValidSize(vertices) THEN Ret(NoValue, ErrLinearRingSize)
    ELSE IF ~IsClosed(vertices) THEN Ret(NoValue, ErrLinearRingClosed)
    ELSE Ret(vertices, NoError)

-----------------------------------------------------------------------------
(* JSON documents.  The encoding/json codec is outside the package; the    *)
(* model keeps what it hands over.  A value decoded into interface{} is a  *)
(* number, an array, null or a string, each tagged with its kind; a        *)
(* geometry document is its members type (empty when absent), coordinates  *)
(* (null when absent) and geometries (empty when absent).                  *)

JNum(n) == [k |-> "num", n |-> n, a |-> <<>>]

JArr(s) == [k |-> "arr", n |-> 0, a |-> s]

JNull == [k |-> "null", n |-> 0, a |-> <<>>]

JStr == [k |-> "str", n |-> 0, a |-> <<>>]

\* geometryJSONInput
GeometryDoc(type, coordinates, geometries) ==
    [type |-> type, coordinates |-> coordinates, geometries |-> geometries]

\* json.Marshal of a Coordinates, Vertices, LinearRings, Segments or
\* []LinearRings value: nested arrays of numbers.
jsonCoordinates(c) == JArr([i \in 1..Len(c) |-> JNum(c[i])])

jsonVertices(v) == JArr([i \in 1..Len(v) |-> jsonCoordinates(v[i])])

jsonSegments(s) == JArr([i \in 1..Len(s) |-> jsonVertices(s[i])])

jsonRingsSlice(s) == JArr([i \in 1..Len(s) |-> jsonSegments(s[i])])

\* The conversion loop of buildCoordinates: the float64 slice, or the error
\* of the first element that is not a number.
RECURSIVE rawFloats(_, _, _)
rawFloats(rawSlice, i, slice) ==
    IF i > Len(rawSlice) THEN Ret(slice, NoError)
    ELSE IF rawSlice[i].k # "num" THEN Ret(NoValue, ErrInvalidCoordinates)
    ELSE rawFloats(rawSlice, i + 1, Append(slice, rawSlice[i].n))

\* buildCoordinates(v interface{}) (*Coordinates, error)
buildCoordinates(v) ==
    IF v.k # "arr" THEN Ret(NoValue, ErrInvalidCoordinates)
    ELSE IF Len(v.a) # coordsMinLen /\ Len(v.a) # coordsMaxLen
    THEN Ret(NoValue, ErrCoordinatesSize)
    ELSE Bind(rawFloats(v.a, 1, <<>>), LAMBDA slice :
         IF slice.err # NoError THEN slice
         ELSE NewCoordinates(slice.val))

-----------------------------------------------------------------------------
(* Polygon and MultiPolygon (polygon.go, multi_polygon.go)                 *)

\* ensureOrientation with the holes given the outer ring's target.
ensureOrientation_allCounterClockwise(rings) ==
    [i \in 1..Len(rings) |-> EnsureOrientation(rings[i], TRUE)]

\* ensureOrientation(rings): the rings' contents after the call.
ensureOrientation(rings) ==
    IF Len(rings) = 0 THEN rings
    ELSE [i \in 1..Len(rings) |-> EnsureOrientation(rings[i], i = 1)]

Polygon(rings) ==
    [kind |-> "Geometry", type |-> "Polygon", rings |-> rings,
     SerializeBBox |-> FALSE]

MultiPolygon(rings) ==
    [kind |-> "Geometry", type |-> "MultiPolygon", rings |-> rings,
     SerializeBBox |-> FALSE]

\* The validation loop with the closure check made before the size check.
RECURSIVE validateRings_closedFirst(_, _)
validateRings_closedFirst(rings, i) ==
    IF i > Len(rings) THEN NoError
    ELSE IF ~IsClosed(rings[i]) THEN ErrLinearRingClosed
    ELSE IF ~HasValidSize(rings[i]) THEN ErrLinearRingSize
    ELSE validateRings_closedFirst(rings, i + 1)

\* The validation loop of NewPolygon and of NewMultiPolygonFromRingSlice:
\* the error of the first ring, from ring i on, that is not valid.
RECURSIVE validateRings(_, _)
validateRings(rings, i) ==
    IF i > Len(rings) THEN NoError
    ELSE IF ~HasValidSize(rings[i]) THEN ErrLinearRingSize
    ELSE IF ~IsClosed(rings[i]) THEN ErrLinearRingClosed
    ELSE validateRings(rings, i + 1)

\* NewPolygon(rings): val is the polygon, err the error, rings the caller's
\* slice after the call (the polygon keeps the same backing arrays).
NewPolygon(rings) ==
    IF Len(rings) = 0
    THEN [val |-> NoValue, err |-> ErrPolygonLinearRingCount, rings |-> rings]
    ELSE Bind(validateRings(rings, 1), LAMBDA e :
         IF e # NoError
         THEN [val |-> NoValue, err |-> e, rings |-> rings]
         ELSE Bind(ensureOrientation(rings), LAMBDA oriented :
              [val |-> Polygon(oriented), err |-> NoError,
               rings |-> oriented]))

\* The loop of NewMultiPolygonFromRingSlice from group i on: each group is
\* validated and then reoriented in place before the next group is looked at.
RECURSIVE multiPolygonLoop(_, _)
multiPolygonLoop(slice, i) ==
    IF i > Len(slice) THEN [err |-> NoError, slice |-> slice]
    ELSE Bind(validateRings(slice[i], 1), LAMBDA e :
         IF e # NoError THEN [err |-> e, slice |-> slice]
         ELSE multiPolygonLoop(
                [slice EXCEPT ![i] = ensureOrientation(slice[i])], i + 1))

\* NewMultiPolygonFromRingSlice(slice): slice is the caller's slice after
\* the call.
NewMultiPolygonFromRingSlice(slice) ==
    Bind(multiPolygonLoop(slice, 1), LAMBDA r :
    IF r.err # NoError
    THEN [val |-> NoValue, err |-> r.err, slice |-> r.slice]
    ELSE [val |-> MultiPolygon(r.slice), err |-> NoError, slice |-> r.slice])

-----------------------------------------------------------------------------
(* Geometry variants: a geometry is the record of its struct's fields,     *)
(* with its type tag.  NilGeometry is the nil Geometry interface value.    *)
(* The field kind tells a geometry from an envelope, a feature, an object. *)

TypeEmptyGeometry == "Object"

TypePoint == "Point"

TypeMultiPoint == "MultiPoint"

TypeLineString == "LineString"

TypeMultiLineString == "MultiLineString"

TypePolygon == "Polygon"

TypeMultiPolygon == "MultiPolygon"

TypeGeometryCollection == "GeometryCollection"

NilGeometry == [kind |-> "Geometry", type |-> "nil"]

Point(coords) ==
    [kind |-> "Geometry", type |-> TypePoint, coords |-> coords,
     SerializeBBox |-> FALSE]

LineString(vertices) ==
    [kind |-> "Geometry", type |-> TypeLineString, vertices |-> vertices,
     SerializeBBox |-> FALSE]

MultiPoint(vertices) ==
    [kind |-> "Geometry", type |-> TypeMultiPoint, vertices |-> vertices,
     SerializeBBox |-> FALSE]

MultiLineString(segments) ==
    [kind |-> "Geometry", type |-> TypeMultiLineString, segments |-> segments,
     SerializeBBox |-> FALSE]

GeometryCollection(geometries) ==
    [kind |-> "Geometry", type |-> TypeGeometryCollection,
     geometries |-> geometries]

LineStringMinimumSize == 2

\* What a method with a pointer receiver leaves: the receiver and the error.
Left(r, e) == [recv |-> r, err |-> e]

\* Point.buildCoordinates
Point_buildCoordinates(p, v) ==
    IF v.k # "arr" THEN Left(p, ErrInvalidCoordinates)
    ELSE Bind(buildCoordinates(v), LAMBDA coords :
         IF coords.err # NoError THEN Left(p, coords.err)
         ELSE Left([p EXCEPT !.coords = coords.val], NoError))

\* The loop of LineString.buildCoordinates and MultiPoint.buildCoordinates:
\* each element is built as a Point; the first error ends the loop.
RECURSIVE buildVertices(_, _, _)
buildVertices(rawSlice, i, vertices) ==
    IF i > Len(rawSlice) THEN Ret(vertices, NoError)
    ELSE Bind(Point_buildCoordinates(Point(<<>>), rawSlice[i]), LAMBDA p :
         IF p.err # NoError THEN Ret(NoValue, p.err)
         ELSE buildVertices(rawSlice, i + 1, Append(vertices, p.recv.coords)))

\* LineString.buildCoordinates
LineString_buildCoordinates(l, v) ==
    IF v.k # "arr" THEN Left(l, ErrInvalidCoordinates)
    ELSE IF Len(v.a) < LineStringMinimumSize
    THEN Left(l, ErrLineStringTooShort)
    ELSE Bind(buildVertices(v.a, 1, <<>>), LAMBDA vertices :
         IF vertices.err # NoError THEN Left(l, vertices.err)
         ELSE Left([l EXCEPT !.vertices = vertices.val], NoError))

\* MultiPoint.buildCoordinates
MultiPoint_buildCoordinates(m, v) ==
    IF v.k # "arr" THEN Left(m, ErrInvalidCoordinates)
    ELSE Bind(buildVertices(v.a, 1, <<>>), LAMBDA vertices :
         IF vertices.err # NoError THEN Left(m, vertices.err)
         ELSE Left([m EXCEPT !.vertices = vertices.val], NoError))

\* The loop of MultiLineString.buildCoordinates.
RECURSIVE buildSegments(_, _, _)
buildSegments(rawSlice, i, segments) ==
    IF i > Len(rawSlice) THEN Ret(segments, NoError)
    ELSE Bind(LineString_buildCoordinates(LineString(<<>>), rawSlice[i]),
              LAMBDA l :
         IF l.err # NoError THEN Ret(NoValue, l.err)
         ELSE buildSegments(rawSlice, i + 1, Append(segments, l.recv.vertices)))

\* MultiLineString.buildCoordinates
MultiLineString_buildCoordinates(m, v) ==
    IF v.k # "arr" THEN Left(m, ErrInvalidCoordinates)
    ELSE IF Len(v.a) = 0 THEN Left(m, ErrMultiLineStringTooShort)
    ELSE Bind(buildSegments(v.a, 1, <<>>), LAMBDA segments :
         IF segments.err # NoError THEN Left(m, segments.err)
         ELSE Left([m EXCEPT !.segments = segments.val], NoError))

\* The inner loop of Polygon.buildCoordinates: the vertices of one raw ring.
RECURSIVE buildRingVertices(_, _, _)
buildRingVertices(rawRing, j, ring) ==
    IF j > Len(rawRing) THEN Ret(ring, NoError)
    ELSE Bind(buildCoordinates(rawRing[j]), LAMBDA coords :
         IF coords.err # NoError THEN coords
         ELSE buildRingVertices(rawRing, j + 1, Append(ring, coords.val)))

\* The outer loop of Polygon.buildCoordinates: ring i is converted and then
\* validated by NewLinearRing before ring i + 1 is looked at.
RECURSIVE buildRings(_, _, _)
buildRings(rawSlice, i, rings) ==
    IF i > Len(rawSlice) THEN Ret(rings, NoError)
    ELSE IF rawSlice[i].k # "arr" THEN Ret(NoValue, ErrInvalidCoordinates)
    ELSE Bind(buildRingVertices(rawSlice[i].a, 1, <<>>), LAMBDA ring :
         IF ring.err # NoError THEN ring
         ELSE Bind(NewLinearRing(ring.val), LAMBDA lr :
              IF lr.err # NoError THEN lr
              ELSE buildRings(rawSlice, i + 1, Append(rings, lr.val))))

\* Polygon.buildCoordinates
Polygon_buildCoordinates(p, v) ==
    IF v.k # "arr" THEN Left(p, ErrInvalidCoordinates)
    ELSE Bind(buildRings(v.a, 1, <<>>), LAMBDA rings :
         IF rings.err # NoError THEN Left(p, rings.err)
         ELSE IF Len(rings.val) = 0 THEN Left(p, ErrPolygonLinearRingCount)
         ELSE Left([p EXCEPT !.rings = ensureOrientation(rings.val)], NoError))

\* The loop of MultiPolygon.buildCoordinates.
RECURSIVE buildRingsSlice(_, _, _)
buildRingsSlice(rawSlice, i, lrSlice) ==
    IF i > Len(rawSlice) THEN Ret(lrSlice, NoError)
    ELSE Bind(Polygon_buildCoordinates(Polygon(<<>>), rawSlice[i]), LAMBDA p :
         IF p.err # NoError THEN Ret(NoValue, p.err)
         ELSE buildRingsSlice(rawSlice, i + 1, Append(lrSlice, p.recv.rings)))

\* MultiPolygon.buildCoordinates
MultiPolygon_buildCoordinates(m, v) ==
    IF v.k # "arr" THEN Left(m, ErrInvalidCoordinates)
    ELSE Bind(buildRingsSlice(v.a, 1, <<>>), LAMBDA lrSlice :
         IF lrSlice.err # NoError THEN Left(m, lrSlice.err)
         ELSE Left([m EXCEPT !.rings = lrSlice.val], NoError))

\* GeometryCollection.buildCoordinates
GeometryCollection_buildCoordinates(g, v) ==
    Left(g, ErrGeometryCollectionBuildCoordinates)

\* v.buildCoordinates(...) on a Geometry interface value.
Geometry_buildCoordinates(v, raw) ==
    CASE v.type = TypePoint -> Point_buildCoordinates(v, raw)
      [] v.type = TypeLineString -> LineString_buildCoordinates(v, raw)
      [] v.type = TypeMultiPoint -> MultiPoint_buildCoordinates(v, raw)
      [] v.type = TypeMultiLineString ->
            MultiLineString_buildCoordinates(v, raw)
      [] v.type = TypePolygon -> Polygon_buildCoordinates(v, raw)
      [] v.type = TypeMultiPolygon -> MultiPolygon_buildCoordinates(v, raw)
      [] v.type = TypeGeometryCollection ->
            GeometryCollection_buildCoordinates(v, raw)

-----------------------------------------------------------------------------
(* Validating constructors of the other variants.                          *)

\* NewPoint
NewPoint(v) ==
    Bind(NewCoordinates(v), LAMBDA coords :
    IF coords.err # NoError THEN Ret(NoValue, coords.err)
    ELSE Ret(Point(coords.val), NoError))

\* NewLineString
NewLineString(v) ==
    IF Len(v) < LineStringMinimumSize THEN Ret(NoValue, ErrLineStringTooShort)
    ELSE Ret(LineString(v), NoError)

\* NewMultiPointFromVertices
NewMultiPointFromVertices(vertices) == MultiPoint(vertices)

\* The loop of NewMultiLineString.
RECURSIVE validateSegments(_, _)
validateSegments(segments, i) ==
    IF i > Len(segments) THEN NoError
    ELSE Bind(NewLineString(segments[i]), LAMBDA l :
         IF l.err # NoError THEN l.err
         ELSE validateSegments(segments, i + 1))

\* A constructor that does not count the segments.
NewMultiLineString_noCount(segments) ==
    Bind(validateSegments(segments, 1), LAMBDA e :
    IF e # NoError THEN Ret(NoValue, e)
    ELSE Ret(MultiLineString(segments), NoError))

\* NewMultiLineString
NewMultiLineString(segments) ==
    IF Len(segments) = 0 THEN Ret(NoValue, ErrMultiLineStringTooShort)
    ELSE Bind(validateSegments(segments, 1), LAMBDA e :
         IF e # NoError THEN Ret(NoValue, e)
         ELSE Ret(MultiLineString(segments), NoError))

\* NewGeometryCollectionFromSlice
NewGeometryCollectionFromSlice(geometries) == GeometryCollection(geometries)

-----------------------------------------------------------------------------
(* GeometryObject: the decode dispatcher and the envelope (polygon.go).    *)

GeometryObject(geometry) == [kind |-> "GeometryObject", geometry |-> geometry]

\* The zero value of the variant a type tag selects.
zeroGeometry(type) ==
    CASE type = TypePoint -> Point(<<>>)
      [] type = TypeLineString -> LineString(<<>>)
      [] type = TypeMultiPoint -> MultiPoint(<<>>)
      [] type = TypeMultiLineString -> MultiLineString(<<>>)
      [] type = TypePolygon -> Polygon(<<>>)
      [] type = TypeMultiPolygon -> MultiPolygon(<<>>)

CoordinateTypes ==
    {TypePoint, TypeLineString, TypeMultiPoint, TypeMultiLineString,
     TypePolygon, TypeMultiPolygon}

RECURSIVE GeometryObject_UnmarshalJSON(_, _)
RECURSIVE unmarshalGeometries(_, _, _)

\* A decoding of the geometries member that leaves out the entries that fail.
RECURSIVE unmarshalGeometries_skipFailed(_, _, _)
unmarshalGeometries_skipFailed(docs, i, geometries) ==
    IF i > Len(docs) THEN Ret(geometries, NoError)
    ELSE Bind(GeometryObject_UnmarshalJSON(GeometryObject(NilGeometry),
                                           docs[i]),
              LAMBDA gm :
         unmarshalGeometries_skipFailed(
            docs, i + 1,
            IF gm.err # NoError THEN geometries
            ELSE Append(geometries, gm.recv.geometry)))

\* json.Unmarshal of the geometries member into []GeometryObject: each entry
\* goes through GeometryObject.UnmarshalJSON on a fresh envelope, and the
\* first error ends the decoding of the whole document.
unmarshalGeometries(docs, i, geometries) ==
    IF i > Len(docs) THEN Ret(geometries, NoError)
    ELSE Bind(GeometryObject_UnmarshalJSON(GeometryObject(NilGeometry),
                                           docs[i]),
              LAMBDA gm :
         IF gm.err # NoError THEN Ret(NoValue, gm.err)
         ELSE unmarshalGeometries(docs, i + 1,
                                  Append(geometries, gm.recv.geometry)))

\* A switch that stores the variant before its coordinates are built.
unmarshalSwitch_storeFirst(g, doc, geometries) ==
    IF doc.type \in CoordinateTypes
    THEN Bind(Geometry_buildCoordinates(zeroGeometry(doc.type),
                                        doc.coordinates),
              LAMBDA v : Left([g EXCEPT !.geometry = v.recv], v.err))
    ELSE IF doc.type = TypeGeometryCollection
    THEN Left([g EXCEPT !.geometry = GeometryCollection(geometries)], NoError)
    ELSE Left(g, ErrInvalidTypeField)

\* The part of GeometryObject.UnmarshalJSON after json.Unmarshal: the switch
\* on the type tag, geometries being the decoded geometries member.
unmarshalSwitch(g, doc, geometries) ==
    IF doc.type \in CoordinateTypes
    THEN Bind(Geometry_buildCoordinates(zeroGeometry(doc.type),
                                        doc.coordinates),
              LAMBDA v :
         IF v.err # NoError THEN Left(g, v.err)
         ELSE Left([g EXCEPT !.geometry = v.recv], NoError))
    ELSE IF doc.type = TypeGeometryCollection
    THEN Left([g EXCEPT !.geometry = GeometryCollection(geometries)], NoError)
    ELSE Left(g, ErrInvalidTypeField)

\* GeometryObject.UnmarshalJSON
GeometryObject_UnmarshalJSON(g, doc) ==
    Bind(unmarshalGeometries(doc.geometries, 1, <<>>), LAMBDA geometries :
    IF geometries.err # NoError THEN Left(g, geometries.err)
    ELSE unmarshalSwitch(g, doc, geometries.val))

\* GeometryObject.Type
GeometryObject_Type(g) ==
    IF g.geometry.type = NilGeometry.type THEN TypeEmptyGeometry
    ELSE g.geometry.type

\* GeometryObject.IsEmpty
IsEmpty(g) == g.geometry.type = NilGeometry.type

\* GeometryObject.IsPoint, IsLineString, ... : the predicate for one variant.
IsVariant(g, type) == ~IsEmpty(g) /\ g.geometry.type = type

\* An accessor that asserts the variant without asking IsEmpty first.
ToVariant_noEmptyCheck(g, type) ==
    IF g.geometry.type # type THEN Ret(NoValue, ErrGeometryTypeMismatch)
    ELSE Ret(g.geometry, NoError)

\* GeometryObject.ToPoint, ToLineString, ... : the accessor for one variant.
ToVariant(g, type) ==
    IF IsEmpty(g) THEN Ret(NoValue, ErrGeometryNotDefined)
    ELSE IF g.geometry.type # type THEN Ret(NoValue, ErrGeometryTypeMismatch)
    ELSE Ret(g.geometry, NoError)

\* FromGeometry
FromGeometry(geometry) == GeometryObject(geometry)

\* The assignment closing each typed UnmarshalJSON (p.coords = g.coords,
\* l.vertices = g.vertices, ...): only the data field is taken over.
assignData(v, g) ==
    CASE v.type = TypePoint -> [v EXCEPT !.coords = g.coords]
      [] v.type \in {TypeLineString, TypeMultiPoint} ->
            [v EXCEPT !.vertices = g.vertices]
      [] v.type = TypeMultiLineString -> [v EXCEPT !.segments = g.segments]
      [] v.type \in {TypePolygon, TypeMultiPolygon} ->
            [v EXCEPT !.rings = g.rings]
      [] v.type = TypeGeometryCollection ->
            [v EXCEPT !.geometries = g.geometries]

\* The shared body returning its own error for every failure.
typedUnmarshalJSON_ownError(v, doc) ==
    Bind(GeometryObject_UnmarshalJSON(GeometryObject(NilGeometry), doc),
         LAMBDA gw :
    IF gw.err # NoError \/ gw.recv.geometry.type # v.type
    THEN Left(v, ErrInvalidTypeField)
    ELSE Left(assignData(v, gw.recv.geometry), NoError))

\* The body shared by the UnmarshalJSON methods of the typed geometries: the
\* document is decoded into a temporary envelope, whose error is wrapped.
typedUnmarshalJSON(v, doc) ==
    Bind(GeometryObject_UnmarshalJSON(GeometryObject(NilGeometry), doc),
         LAMBDA gw :
    IF gw.err # NoError
    THEN Left(v, Wrap("failed to unmarshal " \o v.type, gw.err))
    ELSE IF gw.recv.geometry.type # v.type THEN Left(v, ErrInvalidTypeField)
    ELSE Left(assignData(v, gw.recv.geometry), NoError))

Point_UnmarshalJSON(p, doc) == typedUnmarshalJSON(p, doc)

MultiPoint_UnmarshalJSON(m, doc) == typedUnmarshalJSON(m, doc)

LineString_UnmarshalJSON(l, doc) == typedUnmarshalJSON(l, doc)

MultiLineString_UnmarshalJSON(m, doc) == typedUnmarshalJSON(m, doc)

Polygon_UnmarshalJSON(p, doc) == typedUnmarshalJSON(p, doc)

MultiPolygon_UnmarshalJSON(m, doc) == typedUnmarshalJSON(m, doc)

GeometryCollection_UnmarshalJSON(g, doc) == typedUnmarshalJSON(g, doc)

-----------------------------------------------------------------------------
(* MarshalJSON of the geometries: the document json.Marshal writes from    *)
(* geometryJSONOutput or geometryCollectionJSONOutput.  The bbox member,   *)
(* written when SerializeBBox is set, is left out: no decoder reads it.    *)
(* A document without a coordinates member has coordinates null.           *)

Point_MarshalJSON(p) ==
    GeometryDoc(TypePoint, jsonCoordinates(p.coords), <<>>)

MultiPoint_MarshalJSON(m) ==
    GeometryDoc(TypeMultiPoint, jsonVertices(m.vertices), <<>>)

LineString_MarshalJSON(l) ==
    GeometryDoc(TypeLineString, jsonVertices(l.vertices), <<>>)

MultiLineString_MarshalJSON(m) ==
    GeometryDoc(TypeMultiLineString, jsonSegments(m.segments), <<>>)

Polygon_MarshalJSON(p) ==
    GeometryDoc(TypePolygon, jsonSegments(p.rings), <<>>)

MultiPolygon_MarshalJSON(m) ==
    GeometryDoc(TypeMultiPolygon, jsonRingsSlice(m.rings), <<>>)

RECURSIVE Geometry_MarshalJSON(_)

\* GeometryCollection.MarshalJSON: json.Marshal calls the MarshalJSON of
\* each member.
GeometryCollection_MarshalJSON(g) ==
    GeometryDoc(TypeGeometryCollection, JNull,
                [i \in 1..Len(g.geometries) |->
                    Geometry_MarshalJSON(g.geometries[i])])

\* json.Marshal of a Geometry: the MarshalJSON of its variant.
Geometry_MarshalJSON(g) ==
    CASE g.type = TypePoint -> Point_MarshalJSON(g)
      [] g.type = TypeMultiPoint -> MultiPoint_MarshalJSON(g)
      [] g.type = TypeLineString -> LineString_MarshalJSON(g)
      [] g.type = TypeMultiLineString -> MultiLineString_MarshalJSON(g)
      [] g.type = TypePolygon -> Polygon_MarshalJSON(g)
      [] g.type = TypeMultiPolygon -> MultiPolygon_MarshalJSON(g)
      [] g.type = TypeGeometryCollection -> GeometryCollection_MarshalJSON(g)

-----------------------------------------------------------------------------
(* Features and objects (object.go, id.go, the Feature type).  A feature   *)
(* document is its members type, geometry, properties, id and features;    *)
(* geometry and id are <<>> when absent or null and a one-element sequence *)
(* otherwise, as the pointers *GeometryObject and *ID they decode into.    *)

TypeEmptyObject == "Object"

TypeFeature == "Feature"

TypeFeatureCollection == "FeatureCollection"

ErrInvalidFeature == <<"ErrInvalidFeature">>

ErrInvalidID == <<"ErrInvalidID">>

\* The *json.UnmarshalTypeError of encoding/json.
ErrUnmarshalType == <<"json.UnmarshalTypeError">>

JObj(members) == [k |-> "obj", n |-> 0, a |-> members]

FeatureDoc(type, geometry, properties, id, features) ==
    [type |-> type, geometry |-> geometry, properties |-> properties,
     id |-> id, features |-> features]

Feature(Geometry, Properties, ID) ==
    [kind |-> "Feature", Geometry |-> Geometry, Properties |-> Properties,
     ID |-> ID, SerializeBBox |-> FALSE]

NewFeatureCollectionFromFeatures(features) ==
    [kind |-> "FeatureCollection", Features |-> features,
     SerializeBBox |-> FALSE]

\* An Object: feature and features are pointers, <<>> when nil.
Object(featureType, feature, features) ==
    [kind |-> "Object", featureType |-> featureType, feature |-> feature,
     features |-> features]

\* Object.Type
Object_Type(o) == IF o.featureType = "" THEN TypeEmptyObject ELSE o.featureType

\* Object.IsFeature
Object_IsFeature(o) == Object_Type(o) = TypeFeature

\* Object.IsFeatureCollection
Object_IsFeatureCollection(o) == Object_Type(o) = TypeFeatureCollection

\* Object.Feature: the pointer o.feature, or nil and the error.
Object_Feature(o) ==
    IF Object_IsFeature(o) THEN Ret(o.feature, NoError)
    ELSE Ret(<<>>, ErrInvalidFeature)

\* Object.FeatureCollection: the pointer o.features, or nil and the error.
Object_FeatureCollection(o) ==
    IF Object_IsFeatureCollection(o) THEN Ret(o.features, NoError)
    ELSE Ret(<<>>, ErrInvalidFeature)

\* Properties.UnmarshalJSON: a JSON object or null into a map.
Properties_UnmarshalJSON(data) ==
    IF data.k = "null" THEN Ret(<<>>, NoError)
    ELSE IF data.k = "obj" THEN Ret(data.a, NoError)
    ELSE Ret(NoValue, ErrUnmarshalType)

\* ID.UnmarshalJSON
ID_UnmarshalJSON(data) ==
    IF data.k \in {"str", "num"} THEN Ret(data, NoError)
    ELSE Ret(NoValue, ErrInvalidID)

RECURSIVE Object_UnmarshalJSON(_, _)
RECURSIVE Feature_UnmarshalJSON(_, _)
RECURSIVE unmarshalFeatures(_, _, _)

\* json.Unmarshal of the features member into []Feature: each entry goes
\* through Feature.UnmarshalJSON, and the first error ends the decoding.
unmarshalFeatures(docs, i, features) ==
    IF i > Len(docs) THEN Ret(features, NoError)
    ELSE Bind(Feature_UnmarshalJSON(Feature(NilGeometry, <<>>, <<>>),
                                    docs[i]),
              LAMBDA f :
         IF f.err # NoError THEN Ret(NoValue, f.err)
         ELSE unmarshalFeatures(docs, i + 1, Append(features, f.recv)))

\* json.Unmarshal of the geometry member into *GeometryObject.
unmarshalGeometryMember(doc) ==
    IF Len(doc.geometry) = 0 THEN Ret(<<>>, NoError)
    ELSE Bind(GeometryObject_UnmarshalJSON(GeometryObject(NilGeometry),
                                           doc.geometry[1]),
              LAMBDA g : Ret(<<g.recv>>, g.err))

\* json.Unmarshal of the id member into *ID.
unmarshalIDMember(doc) ==
    IF Len(doc.id) = 0 THEN Ret(<<>>, NoError)
    ELSE Bind(ID_UnmarshalJSON(doc.id[1]), LAMBDA id : Ret(<<id.val>>, id.err))

\* json.Unmarshal(bytes, &feature) into a featuresJSONInput.  At most one
\* member of the documents of this model fails, so that the order in which
\* the members are met in the text does not show.
unmarshalFeaturesJSONInput(doc) ==
    Bind(unmarshalGeometryMember(doc), LAMBDA Geometry :
    IF Geometry.err # NoError THEN Geometry
    ELSE Bind(Properties_UnmarshalJSON(doc.properties), LAMBDA Properties :
    IF Properties.err # NoError THEN Properties
    ELSE Bind(unmarshalIDMember(doc), LAMBDA ID :
    IF ID.err # NoError THEN ID
    ELSE Bind(unmarshalFeatures(doc.features, 1, <<>>), LAMBDA Features :
    IF Features.err # NoError THEN Features
    ELSE Ret([Type |-> doc.type, Geometry |-> Geometry.val,
              Properties |-> Properties.val, ID |-> ID.val,
              Features |-> Features.val], NoError)))))

\* The switch with the type stored before it is looked at.
objectSwitch_typeFirst(o, feature) ==
    Bind([o EXCEPT !.featureType = feature.Type], LAMBDA typed :
    IF feature.Type = TypeFeature
    THEN Bind(IF Len(feature.Geometry) = 0 THEN GeometryObject(NilGeometry)
              ELSE feature.Geometry[1],
              LAMBDA Geometry :
         Left([typed EXCEPT !.feature = <<Feature(Geometry.geometry,
                                                  feature.Properties,
                                                  feature.ID)>>], NoError))
    ELSE IF feature.Type = TypeFeatureCollection
    THEN Left([typed EXCEPT !.features =
                   <<NewFeatureCollectionFromFeatures(feature.Features)>>],
              NoError)
    ELSE Left(typed, ErrInvalidFeature))

\* The part of Object.UnmarshalJSON after json.Unmarshal, feature being the
\* decoded featuresJSONInput.
objectSwitch(o, feature) ==
    IF feature.Type = TypeFeature
    THEN Bind(IF Len(feature.Geometry) = 0 THEN GeometryObject(NilGeometry)
              ELSE feature.Geometry[1],
              LAMBDA Geometry :
         Left([o EXCEPT !.feature = <<Feature(Geometry.geometry,
                                              feature.Properties,
                                              feature.ID)>>,
                        !.featureType = feature.Type], NoError))
    ELSE IF feature.Type = TypeFeatureCollection
    THEN Left([o EXCEPT !.features =
                   <<NewFeatureCollectionFromFeatures(feature.Features)>>,
                        !.featureType = feature.Type], NoError)
    ELSE Left(o, ErrInvalidFeature)

\* Object.UnmarshalJSON
Object_UnmarshalJSON(o, doc) ==
    Bind(unmarshalFeaturesJSONInput(doc), LAMBDA feature :
    IF feature.err # NoError
    THEN Left(o, Wrap("failed to unmarshal features", feature.err))
    ELSE objectSwitch(o, feature.val))

\* Feature.UnmarshalJSON keeping the geometry held when the document has none.
Feature_UnmarshalJSON_keepGeometry(f, doc) ==
    Bind(Object_UnmarshalJSON(Object("", <<>>, <<>>), doc), LAMBDA few :
    IF few.err # NoError
    THEN Left(f, Wrap("failed to unmarshal feature", few.err))
    ELSE IF Len(few.recv.feature) = 0 THEN Left(f, ErrInvalidFeature)
    ELSE Left([f EXCEPT !.Geometry =
                            IF few.recv.feature[1].Geometry = NilGeometry
                            THEN @ ELSE few.recv.feature[1].Geometry,
                        !.Properties = few.recv.feature[1].Properties,
                        !.ID = few.recv.feature[1].ID], NoError))

\* Feature.UnmarshalJSON
Feature_UnmarshalJSON(f, doc) ==
    Bind(Object_UnmarshalJSON(Object("", <<>>, <<>>), doc), LAMBDA few :
    IF few.err # NoError
    THEN Left(f, Wrap("failed to unmarshal feature", few.err))
    ELSE IF Len(few.recv.feature) = 0 THEN Left(f, ErrInvalidFeature)
    ELSE Left([f EXCEPT !.Geometry = few.recv.feature[1].Geometry,
                        !.Properties = few.recv.feature[1].Properties,
                        !.ID = few.recv.feature[1].ID], NoError))

\* What a call leaves when it dereferences a nil pointer.
NilDereference == [panic |-> "nil pointer dereference"]

\* FeatureCollection.UnmarshalJSON: *f = *few.features, whatever few.features
\* is; panic tells whether the call was aborted there.
FeatureCollection_UnmarshalJSON(f, doc) ==
    Bind(Object_UnmarshalJSON(Object("", <<>>, <<>>), doc), LAMBDA few :
    IF few.err # NoError
    THEN [recv |-> f, panic |-> FALSE,
          err |-> Wrap("failed to unmarshal feature collection", few.err)]
    ELSE IF Len(few.recv.features) = 0
    THEN [recv |-> f, panic |-> TRUE, err |-> NoError]
    ELSE [recv |-> few.recv.features[1], panic |-> FALSE, err |-> NoError])

-----------------------------------------------------------------------------
(* Bounding boxes (bounding_box.go) and the Vertices() methods.            *)

bboxSize2D == 4

bboxSize3D == 6

\* math.MaxFloat64: above every number the model computes with.
MaxFloat64 == 1000000

\* What a call leaves when an index expression is out of range.
RuntimePanic == [panic |-> "index out of range"]

\* updateRange with the second comparison left out.
updateRange_minOnly(value, range) ==
    IF value < range[1] THEN <<value, range[2]>> ELSE range

\* updateRange(value, &minVal, &maxVal): <<minVal, maxVal>> after the call.
updateRange(value, range) ==
    <<IF value < range[1] THEN value ELSE range[1],
      IF value > range[2] THEN value ELSE range[2]>>

\* The first loop of bbox from vertex i on; s holds the running ranges and
\* altitudeCount.  Longitude() and Latitude() index the coordinate.
RECURSIVE bboxLoop(_, _, _)
bboxLoop(vertices, i, s) ==
    IF i > Len(vertices) THEN s
    ELSE IF idxCoordsLng > Len(vertices[i]) \/ idxCoordsLat > Len(vertices[i])
    THEN [s EXCEPT !.panic = TRUE]
    ELSE bboxLoop(vertices, i + 1,
           [lng |-> updateRange(Longitude(vertices[i]), s.lng),
            lat |-> updateRange(Latitude(vertices[i]), s.lat),
            alt |-> IF HasAltitude(vertices[i])
                    THEN updateRange(Altitude(vertices[i]), s.alt)
                    ELSE s.alt,
            altitudeCount |-> IF HasAltitude(vertices[i])
                              THEN s.altitudeCount + 1
                              ELSE s.altitudeCount,
            panic |-> FALSE])

\* The second loop with its body left out.
bboxFill_skip(vertices, i, alt) == alt

\* The second loop of bbox: a vertex without altitude counts as altitude 0.
RECURSIVE bboxFill(_, _, _)
bboxFill(vertices, i, alt) ==
    IF i > Len(vertices) THEN alt
    ELSE bboxFill(vertices, i + 1,
                  IF ~HasAltitude(vertices[i]) THEN updateRange(0, alt)
                  ELSE alt)

\* bbox(vertices Vertices) BoundingBox
bbox(vertices) ==
    IF Len(vertices) = 0 THEN <<>>
    ELSE Bind(bboxLoop(vertices, 1,
                       [lng |-> <<LongitudeMax, LongitudeMin>>,
                        lat |-> <<LatitudeMax, LatitudeMin>>,
                        alt |-> <<MaxFloat64, -MaxFloat64>>,
                        altitudeCount |-> 0, panic |-> FALSE]),
              LAMBDA s :
         IF s.panic THEN RuntimePanic
         ELSE Bind(IF s.altitudeCount # Len(vertices)
                   THEN bboxFill(vertices, 1, s.alt)
                   ELSE s.alt,
                   LAMBDA alt :
              IF s.altitudeCount > 0
              THEN <<s.lng[1], s.lat[1], alt[1], s.lng[2], s.lat[2], alt[2]>>
              ELSE <<s.lng[1], s.lat[1], s.lng[2], s.lat[2]>>))

\* v = append(v, x...) for every x of a slice of slices.
RECURSIVE AppendAll(_, _)
AppendAll(slices, i) ==
    IF i > Len(slices) THEN <<>>
    ELSE slices[i] \o AppendAll(slices, i + 1)

\* The Vertices() method of each variant.
RECURSIVE Geometry_Vertices(_)
Geometry_Vertices(g) ==
    CASE g.type = TypePoint -> <<g.coords>>
      [] g.type = TypeLineString -> g.vertices
      [] g.type = TypeMultiPoint -> g.vertices
      [] g.type = TypeMultiLineString -> AppendAll(g.segments, 1)
      [] g.type = TypePolygon -> AppendAll(g.rings, 1)
      [] g.type = TypeMultiPolygon ->
           AppendAll([k \in 1..Len(g.rings) |-> AppendAll(g.rings[k], 1)], 1)
      [] g.type = TypeGeometryCollection ->
           AppendAll([k \in 1..Len(g.geometries) |->
                         Geometry_Vertices(g.geometries[k])], 1)

\* The BoundingBox() method of each variant.
Geometry_BoundingBox(g) == bbox(Geometry_Vertices(g))

\* Feature.Vertices
Feature_Vertices(f) ==
    IF f.Geometry = NilGeometry THEN <<>> ELSE Geometry_Vertices(f.Geometry)

\* Feature.BoundingBox
Feature_BoundingBox(f) == bbox(Feature_Vertices(f))

\* FeatureCollection.Vertices
FeatureCollection_Vertices(fc) ==
    AppendAll([k \in 1..Len(fc.Features) |->
                  Feature_Vertices(fc.Features[k])], 1)

\* FeatureCollection.BoundingBox
FeatureCollection_BoundingBox(fc) == bbox(FeatureCollection_Vertices(fc))

-----------------------------------------------------------------------------
(* Specification SpecCoord: calls of NewCoordinates.                       *)

MaxCoordLen == 4

\* The float64 values the calls are made with: both sides of each bound.
CoordValues == {-181, -180, -91, -90, 0, 90, 91, 180, 181}

\* The sequences of n elements of S.
SeqsOfLen(S, n) == [1..n -> S]

SeqsUpTo(S, n) == UNION {SeqsOfLen(S, k) : k \in 0..n}

NoReceiver == [kind |-> "none"]

\* Before the call: the caller holds the slice it will pass, of up to
\* MaxCoordLen values, and nothing has been returned.
InitCoord ==
    /\ op = "init"
    /\ \E n \in 0..MaxCoordLen : arg \in SeqsOfLen(CoordValues, n)
    /\ out = NoValue
    /\ err = NoError
    /\ caller = arg
    /\ recv = NoReceiver

CallNewCoordinates ==
    /\ op = "init"
    /\ \E r \in {NewCoordinates(arg)} :
        /\ op' = "NewCoordinates"
        /\ out' = r.val
        /\ err' = r.err
    /\ UNCHANGED <<arg, caller, recv>>

NextCoord == CallNewCoordinates

SpecCoord == InitCoord /\ [][NextCoord]_vars

\* C8: NewCoordinates(v) fails with ErrCoordinatesSize iff len(v) is neither
\* 2 nor 3; otherwise with ErrLongitudeRange iff v[0] is outside [-180,180];
\* otherwise with ErrLatitudeRange iff v[1] is outside [-90,90]; otherwise it
\* succeeds and returns the same components in the same order.  The bounds
\* are inclusive, the altitude is unconstrained, and the size error wins over
\* the longitude error, the longitude error over the latitude error.
C8_NewCoordinatesContract ==
    op = "NewCoordinates" =>
        LET badSize == Len(arg) \notin {2, 3}
            badLng  == ~badSize /\ (arg[1] < -180 \/ arg[1] > 180)
            badLat  == ~badSize /\ ~badLng /\ (arg[2] < -90 \/ arg[2] > 90)
        IN /\ ErrorIs(err, ErrCoordinatesSize) <=> badSize
           /\ ErrorIs(err, ErrLongitudeRange) <=> badLng
           /\ ErrorIs(err, ErrLatitudeRange) <=> badLat
           /\ (err = NoError) <=> ~(badSize \/ badLng \/ badLat)
           /\ err = NoError => out = arg
           /\ err # NoError => out = NoValue

\* A 3-component coordinate on the inclusive bounds with a large altitude is
\* accepted and returned unchanged.
C8_Witness ==
    /\ op = "NewCoordinates"
    /\ arg = <<180, -90, 181>>
    /\ err = NoError
    /\ out = <<180, -90, 181>>

-----------------------------------------------------------------------------
(* Specification SpecRing: a caller builds a ring with NewLinearRing and   *)
(* then calls EnsureOrientation on it any number of times.                 *)

MaxRingLen == 4

\* The vertices rings are made of: three corners of a triangle, on even
\* coordinates, and the first corner again with an altitude.
RingPoints == {<<0, 0>>, <<2, 0>>, <<0, 2>>, <<0, 0, 2>>}

RingInputs == SeqsUpTo(RingPoints, MaxRingLen)

InitIdle ==
    /\ op = "init"
    /\ arg = <<>>
    /\ out = NoValue
    /\ err = NoError
    /\ caller = <<>>

InitRing == InitIdle /\ recv = NoReceiver

CallNewLinearRing ==
    /\ op = "init"
    /\ \E vertices \in RingInputs :
        \E r \in {NewLinearRing(vertices)} :
        /\ op' = "NewLinearRing"
        /\ arg' = vertices
        /\ out' = r.val
        /\ err' = r.err
        /\ caller' = vertices
    /\ UNCHANGED recv

\* lr.EnsureOrientation(w) on the ring NewLinearRing returned: out is the
\* ring, which shares its backing array with the caller's vertices.
CallEnsureOrientation ==
    /\ op \in {"NewLinearRing", "EnsureOrientation"}
    /\ err = NoError
    /\ \E w \in BOOLEAN :
        /\ op' = "EnsureOrientation"
        /\ arg' = w
        /\ out' = EnsureOrientation(out, w)
        /\ caller' = EnsureOrientation(out, w)
    /\ UNCHANGED <<err, recv>>

NextRing == CallNewLinearRing \/ CallEnsureOrientation

SpecRing == InitRing /\ [][NextRing]_vars

\* C3: for every valid ring and either target w, calling EnsureOrientation(w)
\* twice leaves the ring with exactly the vertex order one call left: a call
\* that follows a call with the same w changes nothing.
C3_EnsureOrientationIdempotent ==
    [][(op = "EnsureOrientation" /\ op' = "EnsureOrientation" /\ arg' = arg)
          => out' = out]_vars

-----------------------------------------------------------------------------
(* Specification SpecPoly: one call of NewPolygon, of                      *)
(* NewMultiPolygonFromRingSlice, or of GeometryObject.UnmarshalJSON on a   *)
(* Polygon or MultiPolygon document.                                       *)

MaxRings == 2

MaxGroups == 2

ringCCW == <<<<0, 0>>, <<2, 0>>, <<0, 2>>, <<0, 0>>>>

ringCW == <<<<0, 0>>, <<0, 2>>, <<2, 0>>, <<0, 0>>>>

ringZeroArea == <<<<0, 0>>, <<2, 0>>, <<0, 0>>, <<0, 0>>>>

ringOpen == <<<<0, 0>>, <<2, 0>>, <<0, 2>>, <<0, 0, 2>>>>

ringShort == <<<<0, 0>>, <<2, 0>>, <<0, 0>>>>

\* A ring with a longitude out of range.
ringBadLongitude == <<<<200, 0>>, <<2, 0>>, <<0, 2>>, <<200, 0>>>>

\* A ring that reads the same in both orders; its terms cancel in pairs, and
\* the rounded sum leaves a positive residue.
ringResidue ==
    <<<<10, -8>>, <<10, 6>>, <<-10, 10>>, <<10, 6>>, <<10, -8>>>>

RingSamples ==
    {ringCCW, ringCW, ringZeroArea, ringOpen, ringShort, ringBadLongitude,
     ringResidue}

\* Ring lists: every single ring of RingInputs, every such ring as the hole
\* of a valid outer ring, and every list of up to MaxRings samples.
PolygonInputs ==
    {<<r>> : r \in RingInputs}
        \cup {<<ringCW, r>> : r \in RingInputs}
        \cup SeqsUpTo(RingSamples, MaxRings)

GroupSamples ==
    {<<>>, <<ringCCW>>, <<ringCW>>, <<ringCW, ringCCW>>, <<ringZeroArea>>,
     <<ringCCW, ringOpen>>, <<ringShort>>, <<ringBadLongitude>>}

MultiPolygonInputs ==
    SeqsUpTo(GroupSamples, MaxGroups) \cup {<<rings>> : rings \in PolygonInputs}

\* Documents whose coordinates member is not an array of arrays of arrays.
MalformedCoordinates ==
    {JNull, JStr, JNum(0), JArr(<<JStr>>), JArr(<<JArr(<<JNum(0)>>)>>),
     JArr(<<JArr(<<JArr(<<JStr, JNum(0)>>)>>)>>)}

InitPoly == InitIdle /\ recv = GeometryObject(NilGeometry)

CallNewPolygon ==
    /\ op = "init"
    /\ \E rings \in PolygonInputs :
        \E r \in {NewPolygon(rings)} :
        /\ op' = "NewPolygon"
        /\ arg' = rings
        /\ out' = r.val
        /\ err' = r.err
        /\ caller' = r.rings
    /\ UNCHANGED recv

CallNewMultiPolygonFromRingSlice ==
    /\ op = "init"
    /\ \E slice \in MultiPolygonInputs :
        \E r \in {NewMultiPolygonFromRingSlice(slice)} :
        /\ op' = "NewMultiPolygonFromRingSlice"
        /\ arg' = slice
        /\ out' = r.val
        /\ err' = r.err
        /\ caller' = r.slice
    /\ UNCHANGED recv

\* The decode of doc into the envelope; from is the value the document's
\* coordinates were written from (empty for a malformed document).
DecodeInto(name, doc, from) ==
    \E l \in {GeometryObject_UnmarshalJSON(recv, doc)} :
    /\ op' = name
    /\ arg' = doc
    /\ out' = NoValue
    /\ err' = l.err
    /\ caller' = from
    /\ recv' = l.recv

CallDecodePolygon ==
    /\ op = "init"
    /\ \/ \E rings \in PolygonInputs :
            DecodeInto("DecodePolygon",
                       GeometryDoc(TypePolygon, jsonSegments(rings), <<>>),
                       rings)
       \/ \E raw \in MalformedCoordinates :
            DecodeInto("DecodePolygon", GeometryDoc(TypePolygon, raw, <<>>),
                       <<>>)

CallDecodeMultiPolygon ==
    /\ op = "init"
    /\ \/ \E slice \in MultiPolygonInputs :
            DecodeInto("DecodeMultiPolygon",
                       GeometryDoc(TypeMultiPolygon, jsonRingsSlice(slice),
                                   <<>>),
                       slice)
       \/ \E raw \in MalformedCoordinates :
            DecodeInto("DecodeMultiPolygon",
                       GeometryDoc(TypeMultiPolygon, raw, <<>>), <<>>)

\* Polygon.UnmarshalJSON on a new Polygon{}.
CallPolygonUnmarshalJSON ==
    /\ op = "init"
    /\ \E rings \in PolygonInputs :
        \E l \in {Polygon_UnmarshalJSON(
                    Polygon(<<>>),
                    GeometryDoc(TypePolygon, jsonSegments(rings), <<>>))} :
        /\ op' = "Polygon.UnmarshalJSON"
        /\ arg' = GeometryDoc(TypePolygon, jsonSegments(rings), <<>>)
        /\ out' = NoValue
        /\ err' = l.err
        /\ caller' = rings
        /\ recv' = l.recv

NextPoly ==
    \/ CallNewPolygon
    \/ CallNewMultiPolygonFromRingSlice
    \/ CallDecodePolygon
    \/ CallDecodeMultiPolygon
    \/ CallPolygonUnmarshalJSON

SpecPoly == InitPoly /\ [][NextPoly]_vars

\* The ring groups of the polygon or multi-polygon a successful call gave.
ResultGroups ==
    CASE op = "NewPolygon" -> {out.rings}
      [] op = "NewMultiPolygonFromRingSlice" ->
            {out.rings[i] : i \in DOMAIN out.rings}
      [] op = "DecodePolygon" -> {recv.geometry.rings}
      [] op = "DecodeMultiPolygon" ->
            {recv.geometry.rings[i] : i \in DOMAIN recv.geometry.rings}
      [] op = "Polygon.UnmarshalJSON" -> {recv.rings}
      [] OTHER -> {}

HolesClockwise(g) == \A i \in 2..Len(g) : IsClockwise(g[i])

C4_RingClosure ==
    (op \in {"DecodePolygon", "DecodeMultiPolygon", "Polygon.UnmarshalJSON"}
        /\ err = NoError) =>
        \A g \in ResultGroups : \A i \in DOMAIN g :
            /\ Len(g[i]) >= 4
            /\ g[i][1] = g[i][Len(g[i])]

\* A decode that reversed both rings of the document.
C4_Witness ==
    /\ op = "DecodePolygon"
    /\ err = NoError
    /\ caller = <<ringCW, ringCCW>>
    /\ recv.geometry.rings = <<ringCCW, ringCW>>

\* Whether a ring breaks one of the two ring rules.
RingInvalid(ring) == Len(ring) < 4 \/ ring[1] # ring[Len(ring)]

\* The error C10 names for a ring list: that of the first invalid ring.
PolygonError(rings) ==
    IF Len(rings) = 0 THEN ErrPolygonLinearRingCount
    ELSE IF \A i \in DOMAIN rings : ~RingInvalid(rings[i]) THEN NoError
    ELSE LET i == CHOOSE k \in DOMAIN rings :
                    /\ RingInvalid(rings[k])
                    /\ \A j \in 1..(k - 1) : ~RingInvalid(rings[j]) IN
         IF Len(rings[i]) < 4 THEN ErrLinearRingSize ELSE ErrLinearRingClosed

\* Whether every coordinate of the rings is one NewCoordinates accepts.
WellFormed(rings) ==
    \A i \in DOMAIN rings : \A j \in DOMAIN rings[i] :
        NewCoordinates(rings[i][j]).err = NoError

\* The error of the call is the sentinel e, or no error when e is none.
Fails(e) == IF e = NoError THEN err = NoError ELSE ErrorIs(err, e)

\* C10: NewPolygon(rings), and the decode of a Polygon document whose
\* coordinates are all well formed, fail with ErrPolygonLinearRingCount when
\* there is no ring, else with the error of the first invalid ring
\* (ErrLinearRingSize under 4 vertices, else ErrLinearRingClosed), and
\* succeed when every ring is valid.
C10_PolygonValidation ==
    /\ op = "NewPolygon" => Fails(PolygonError(arg))
    /\ (op \in {"DecodePolygon", "Polygon.UnmarshalJSON"}
            /\ arg.coordinates = jsonSegments(caller) /\ WellFormed(caller))
        => Fails(PolygonError(caller))

\* The document {"type":"Polygon","coordinates":[[]]} was refused for the
\* size of its ring.
C10_Witness ==
    /\ op = "DecodePolygon"
    /\ arg = GeometryDoc(TypePolygon, JArr(<<JArr(<<>>)>>), <<>>)
    /\ err = ErrLinearRingSize

-----------------------------------------------------------------------------
(* Specification SpecDecode: one UnmarshalJSON call on a GeometryObject,   *)
(* a typed geometry, a Feature or an Object that is new or already holds a *)
(* value, and the predicates and accessors of the envelope after it.       *)

MaxChildren == 2

MaxFeatures == 2

docPoint == GeometryDoc(TypePoint, jsonCoordinates(<<0, 0>>), <<>>)

docPoint3D == GeometryDoc(TypePoint, jsonCoordinates(<<2, 0, 2>>), <<>>)

docLineString ==
    GeometryDoc(TypeLineString, jsonVertices(<<<<0, 0>>, <<2, 0>>>>), <<>>)

docMultiPoint ==
    GeometryDoc(TypeMultiPoint, jsonVertices(<<<<0, 0>>, <<2, 0, 2>>>>), <<>>)

docMultiLineString ==
    GeometryDoc(TypeMultiLineString,
                jsonSegments(<<<<<<0, 0>>, <<2, 0>>>>>>), <<>>)

docPolygon == GeometryDoc(TypePolygon, jsonSegments(<<ringCW>>), <<>>)

docMultiPolygon ==
    GeometryDoc(TypeMultiPolygon,
                jsonRingsSlice(<<<<ringCCW>>, <<ringCCW, ringCW>>>>), <<>>)

\* Documents of one geometry that decode.
GoodLeafDocs ==
    {docPoint, docPoint3D, docLineString, docMultiPoint, docMultiLineString,
     docPolygon, docMultiPolygon}

docBadPoint == GeometryDoc(TypePoint, jsonCoordinates(<<200, 0>>), <<>>)

docShortLineString ==
    GeometryDoc(TypeLineString, jsonVertices(<<<<0, 0>>>>), <<>>)

\* A polygon whose second ring is not closed.
docPolygonOpenHole ==
    GeometryDoc(TypePolygon, jsonSegments(<<ringCCW, ringOpen>>), <<>>)

\* A multi-polygon whose second group has a ring that is too short.
docMultiPolygonBadGroup ==
    GeometryDoc(TypeMultiPolygon,
                jsonRingsSlice(<<<<ringCW>>, <<ringShort>>>>), <<>>)

\* Documents of one geometry that a coordinate-builder refuses.
BadLeafDocs ==
    {docBadPoint, docShortLineString, docPolygonOpenHole,
     docMultiPolygonBadGroup, GeometryDoc(TypePoint, JNull, <<>>),
     GeometryDoc(TypeMultiPoint, JArr(<<JStr>>), <<>>)}

LeafDocs == GoodLeafDocs \cup BadLeafDocs

\* Type tags that name no variant; "" is the tag of a document without a
\* type member.
UnknownTags == {"Foo", "", "Object", "point"}

docCollection ==
    GeometryDoc(TypeGeometryCollection, JNull, <<docPoint, docLineString>>)

docCollectionBadChild ==
    GeometryDoc(TypeGeometryCollection, JNull, <<docPoint, docBadPoint>>)

\* The geometries member of a document: children that are leaves, nested
\* collections, or documents with an unknown tag.
ChildDocs ==
    SeqsUpTo(LeafDocs, MaxChildren)
        \cup {<<docCollection, docPolygon>>,
              <<docPoint, docCollectionBadChild>>,
              <<GeometryDoc("Foo", JNull, <<>>)>>}

GeometryDocs ==
    LeafDocs
        \cup {GeometryDoc(TypeGeometryCollection, JNull, c) : c \in ChildDocs}
        \cup {GeometryDoc(t, JNull, c) : t \in UnknownTags, c \in ChildDocs}
        \cup {GeometryDoc(t, raw, <<>>) :
                t \in UnknownTags, raw \in {jsonCoordinates(<<0, 0>>), JStr}}
        \cup {GeometryDoc(TypePoint, jsonCoordinates(<<0, 0>>), c) :
                c \in {<<docPoint>>, <<docBadPoint>>}}
        \cup {GeometryDoc(TypeGeometryCollection, raw, <<docPoint>>) :
                raw \in {jsonCoordinates(<<0, 0>>), JStr}}


\* The members of feature documents, those that decode and those that fail.
GoodGeometryMembers == {<<>>, <<docPoint>>, <<docCollection>>}

BadGeometryMembers ==
    {<<docBadPoint>>, <<GeometryDoc("Foo", JNull, <<>>)>>,
     <<docCollectionBadChild>>}

GoodProperties == {JNull, JObj(<<>>), JObj(<<<<"name", JStr>>>>)}

BadProperties == {JStr, JArr(<<>>)}

GoodIDs == {<<>>, <<JNum(2)>>, <<JStr>>}

BadIDs == {<<JArr(<<>>)>>, <<JObj(<<>>)>>}

\* Feature documents in which at most one member fails.
SingleFeatureDocs ==
    {FeatureDoc(TypeFeature, g, p, i, <<>>) :
        g \in GoodGeometryMembers \cup BadGeometryMembers,
        p \in GoodProperties, i \in GoodIDs}
    \cup {FeatureDoc(TypeFeature, g, p, i, <<>>) :
        g \in GoodGeometryMembers, p \in BadProperties, i \in GoodIDs}
    \cup {FeatureDoc(TypeFeature, g, p, i, <<>>) :
        g \in GoodGeometryMembers, p \in GoodProperties, i \in BadIDs}

featPoint ==
    FeatureDoc(TypeFeature, <<docPoint>>, JObj(<<>>), <<JNum(2)>>, <<>>)

featNoGeometry == FeatureDoc(TypeFeature, <<>>, JNull, <<>>, <<>>)

featBadGeometry == FeatureDoc(TypeFeature, <<docBadPoint>>, JNull, <<>>, <<>>)

\* The entries of a features member: features, and a collection where a
\* feature is expected.
FeatureSamples ==
    {featPoint, featNoGeometry, featBadGeometry,
     FeatureDoc(TypeFeatureCollection, <<>>, JNull, <<>>, <<featPoint>>)}

CollectionDocs ==
    {FeatureDoc(TypeFeatureCollection, <<>>, JNull, <<>>, fs) :
        fs \in SeqsUpTo(FeatureSamples, MaxFeatures)}
    \cup {FeatureDoc(TypeFeatureCollection, <<docBadPoint>>, JNull, <<>>,
                     <<featPoint>>),
          FeatureDoc(TypeFeatureCollection, <<docPoint>>, JNull, <<JStr>>,
                     <<featPoint>>)}

FeatureDocs ==
    SingleFeatureDocs \cup CollectionDocs
        \cup {FeatureDoc(t, <<docPoint>>, JNull, <<>>, <<>>) :
                t \in UnknownTags \cup {TypePoint}}

\* Values a receiver may hold before the call.
heldPoint == Point(<<2, 2>>)

heldFeature == Feature(heldPoint, <<<<"name", JStr>>>>, <<JNum(4)>>)

EnvelopeReceivers ==
    {GeometryObject(NilGeometry), FromGeometry(heldPoint),
     FromGeometry(GeometryCollection(<<heldPoint>>))}

GeometryReceivers ==
    {zeroGeometry(t) : t \in CoordinateTypes}
        \cup {GeometryCollection(<<>>), heldPoint,
              MultiPoint(<<<<2, 2>>>>), LineString(<<<<2, 2>>, <<0, 2>>>>),
              MultiLineString(<<<<<<2, 2>>, <<0, 2>>>>>>),
              Polygon(<<ringCCW>>), MultiPolygon(<<<<ringCCW>>>>),
              GeometryCollection(<<heldPoint>>)}

FeatureReceivers == {Feature(NilGeometry, <<>>, <<>>), heldFeature}

FeatureCollectionReceivers ==
    {NewFeatureCollectionFromFeatures(<<>>),
     NewFeatureCollectionFromFeatures(<<heldFeature>>)}

ObjectReceivers ==
    {Object("", <<>>, <<>>), Object(TypeFeature, <<heldFeature>>, <<>>),
     Object(TypeFeatureCollection, <<>>,
            <<NewFeatureCollectionFromFeatures(<<heldFeature>>)>>)}


VariantTypes == CoordinateTypes \cup {TypeGeometryCollection}

\* The UnmarshalJSON method of the typed geometry v.
Geometry_UnmarshalJSON(v, doc) ==
    CASE v.type = TypePoint -> Point_UnmarshalJSON(v, doc)
      [] v.type = TypeMultiPoint -> MultiPoint_UnmarshalJSON(v, doc)
      [] v.type = TypeLineString -> LineString_UnmarshalJSON(v, doc)
      [] v.type = TypeMultiLineString -> MultiLineString_UnmarshalJSON(v, doc)
      [] v.type = TypePolygon -> Polygon_UnmarshalJSON(v, doc)
      [] v.type = TypeMultiPolygon -> MultiPolygon_UnmarshalJSON(v, doc)
      [] v.type = TypeGeometryCollection ->
            GeometryCollection_UnmarshalJSON(v, doc)

InitDecode ==
    /\ InitIdle
    /\ recv \in EnvelopeReceivers \cup GeometryReceivers
                    \cup FeatureReceivers \cup ObjectReceivers
                    \cup FeatureCollectionReceivers

\* The call left the receiver and the error l.
Decoded(name, doc, l) ==
    /\ op' = name
    /\ arg' = doc
    /\ out' = NoValue
    /\ err' = l.err
    /\ recv' = l.recv
    /\ UNCHANGED caller

CallGeometryObjectUnmarshalJSON ==
    /\ op = "init"
    /\ recv.kind = "GeometryObject"
    /\ \E doc \in GeometryDocs :
        \E l \in {GeometryObject_UnmarshalJSON(recv, doc)} :
            Decoded("GeometryObject.UnmarshalJSON", doc, l)

CallGeometryUnmarshalJSON ==
    /\ op = "init"
    /\ recv.kind = "Geometry"
    /\ \E doc \in GeometryDocs :
        \E l \in {Geometry_UnmarshalJSON(recv, doc)} :
            Decoded(recv.type \o ".UnmarshalJSON", doc, l)

CallFeatureUnmarshalJSON ==
    /\ op = "init"
    /\ recv.kind = "Feature"
    /\ \E doc \in FeatureDocs :
        \E l \in {Feature_UnmarshalJSON(recv, doc)} :
            Decoded("Feature.UnmarshalJSON", doc, l)

\* A call that panics returns nothing: out holds the panic.
CallFeatureCollectionUnmarshalJSON ==
    /\ op = "init"
    /\ recv.kind = "FeatureCollection"
    /\ \E doc \in FeatureDocs :
        \E l \in {FeatureCollection_UnmarshalJSON(recv, doc)} :
            /\ op' = "FeatureCollection.UnmarshalJSON"
            /\ arg' = doc
            /\ out' = IF l.panic THEN NilDereference ELSE NoValue
            /\ err' = l.err
            /\ recv' = l.recv
            /\ UNCHANGED caller

CallObjectUnmarshalJSON ==
    /\ op = "init"
    /\ recv.kind = "Object"
    /\ \E doc \in FeatureDocs :
        \E l \in {Object_UnmarshalJSON(recv, doc)} :
            Decoded("Object.UnmarshalJSON", doc, l)

\* g.IsPoint(), g.IsLineString(), ... on the envelope, new, built by
\* FromGeometry or decoded.
CallIsVariant ==
    /\ op \in {"init", "GeometryObject.UnmarshalJSON"}
    /\ recv.kind = "GeometryObject"
    /\ \E type \in VariantTypes :
        /\ op' = "IsVariant"
        /\ arg' = type
        /\ out' = IsVariant(recv, type)
        /\ err' = NoError
    /\ UNCHANGED <<caller, recv>>

\* g.ToPoint(), g.ToLineString(), ... on the envelope.
CallToVariant ==
    /\ op \in {"init", "GeometryObject.UnmarshalJSON"}
    /\ recv.kind = "GeometryObject"
    /\ \E type \in VariantTypes :
        \E r \in {ToVariant(recv, type)} :
        /\ op' = "ToVariant"
        /\ arg' = type
        /\ out' = r.val
        /\ err' = r.err
    /\ UNCHANGED <<caller, recv>>

\* g.buildCoordinates(v) called on a GeometryCollection.
CallGeometryCollectionBuildCoordinates ==
    /\ op = "init"
    /\ recv.kind = "Geometry"
    /\ recv.type = TypeGeometryCollection
    /\ \E v \in {JNull, JStr, JArr(<<>>), jsonCoordinates(<<0, 0>>)} :
        \E l \in {GeometryCollection_buildCoordinates(recv, v)} :
            Decoded("GeometryCollection.buildCoordinates", v, l)

\* f.Vertices() on a Feature that was decoded.
CallDecodedFeatureVertices ==
    /\ op = "Feature.UnmarshalJSON"
    /\ err = NoError
    /\ op' = "Feature.Vertices"
    /\ out' = Feature_Vertices(recv)
    /\ UNCHANGED <<arg, err, caller, recv>>

\* f.BoundingBox() on a Feature that was decoded.
CallDecodedFeatureBoundingBox ==
    /\ op = "Feature.UnmarshalJSON"
    /\ err = NoError
    /\ op' = "Feature.BoundingBox"
    /\ out' = Feature_BoundingBox(recv)
    /\ UNCHANGED <<arg, err, caller, recv>>

NextDecode ==
    \/ CallFeatureCollectionUnmarshalJSON
    \/ CallGeometryObjectUnmarshalJSON
    \/ CallGeometryCollectionBuildCoordinates
    \/ CallGeometryUnmarshalJSON
    \/ CallFeatureUnmarshalJSON
    \/ CallObjectUnmarshalJSON
    \/ CallIsVariant
    \/ CallToVariant
    \/ CallDecodedFeatureVertices
    \/ CallDecodedFeatureBoundingBox

SpecDecode == InitDecode /\ [][NextDecode]_vars


DecodeOps ==
    {"GeometryObject.UnmarshalJSON", "Feature.UnmarshalJSON",
     "Object.UnmarshalJSON"}
        \cup {t \o ".UnmarshalJSON" : t \in VariantTypes}

\* C5: an UnmarshalJSON call on a GeometryObject, a typed geometry, a
\* Feature or an Object that returns an error leaves the receiver with
\* exactly the value it held before the call, wherever in the document the
\* error was found.
C5_AtomicDecodeFailure ==
    [][(op' \in DecodeOps /\ err' # NoError) => recv' = recv]_vars

\* An envelope holding a point was given a collection whose second child is
\* out of range: the call failed and the envelope still holds the point.
C5_Witness ==
    /\ op = "GeometryObject.UnmarshalJSON"
    /\ arg = docCollectionBadChild
    /\ ErrorIs(err, ErrLongitudeRange)
    /\ recv = FromGeometry(heldPoint)

\* C6 as stated: GeometryObject.UnmarshalJSON picks the variant by the exact
\* type tag; after a successful decode Type() is the tag of the document;
\* with any other tag, or none, the call fails with ErrInvalidTypeField, no
\* coordinate-builder having run.
C6_DecodeDispatch ==
    op = "GeometryObject.UnmarshalJSON" =>
        IF arg.type \in VariantTypes
        THEN err = NoError => GeometryObject_Type(recv) = arg.type
        ELSE ErrorIs(err, ErrInvalidTypeField)

\* C7: on an empty envelope every IsX is false and every ToX fails with
\* ErrGeometryNotDefined; on an envelope holding variant V exactly the
\* predicate of V is true, ToV returns the held geometry without error, and
\* every other ToX fails with ErrGeometryTypeMismatch and returns nothing.
C7_EnvelopePredicates ==
    recv.kind = "GeometryObject" =>
        LET empty == recv.geometry.type = NilGeometry.type
            held  == {t \in VariantTypes : IsVariant(recv, t)} IN
        /\ held = IF empty THEN {} ELSE {recv.geometry.type}
        /\ op = "IsVariant" => out = (~empty /\ arg = recv.geometry.type)
        /\ op = "ToVariant" =>
            IF empty THEN err = ErrGeometryNotDefined /\ out = NoValue
            ELSE IF arg = recv.geometry.type
            THEN err = NoError /\ out = recv.geometry
            ELSE err = ErrGeometryTypeMismatch /\ out = NoValue

\* ToPolygon on an envelope decoded from a polygon document returned the
\* decoded polygon.
C7_Witness ==
    /\ op = "ToVariant"
    /\ arg = TypePolygon
    /\ err = NoError
    /\ out = Polygon(<<ringCCW>>)
    /\ recv = GeometryObject(out)


-----------------------------------------------------------------------------
(* Specification SpecRoundTrip: a caller builds a geometry with one of the *)
(* public constructors, may put it into geometry collections, encodes it   *)
(* with MarshalJSON and decodes the document into a new GeometryObject.    *)

MaxVertices == 3

MaxSegments == 2

MaxDepth == 2

\* The float64 values points are made of.
PointValues == {0, 2, 180, 200}

\* The coordinates a caller writes as Coordinates{...} literals: in range,
\* out of range, and with one component only.
VertexSamples == {<<0, 0>>, <<2, 0>>, <<0, 2, 2>>, <<200, 0>>, <<0>>}

VerticesInputs == SeqsUpTo(VertexSamples, MaxVertices)

SegmentSamples ==
    {<<<<0, 0>>, <<2, 0>>>>, <<<<0, 0>>>>, <<<<200, 0>>, <<0, 0>>>>,
     <<<<0, 0>>, <<2, 0>>, <<0, 2, 2>>>>}

SegmentsInputs == SeqsUpTo(SegmentSamples, MaxSegments)

GeometryConstructors ==
    {"NewPoint", "NewLineString", "NewMultiPointFromVertices",
     "NewMultiLineString", "NewPolygon", "NewMultiPolygonFromRingSlice",
     "NewGeometryCollectionFromSlice"}

InitRoundTrip == InitIdle /\ recv = GeometryObject(NilGeometry)

\* The constructor returned r for the argument a.
Constructed(name, a, r) ==
    /\ op' = name
    /\ arg' = a
    /\ out' = r.val
    /\ err' = r.err
    /\ UNCHANGED <<caller, recv>>

CallNewPoint ==
    /\ op = "init"
    /\ \E n \in 0..MaxCoordLen : \E v \in SeqsOfLen(PointValues, n) :
        \E r \in {NewPoint(v)} : Constructed("NewPoint", v, r)

CallNewLineString ==
    /\ op = "init"
    /\ \E v \in VerticesInputs :
        \E r \in {NewLineString(v)} : Constructed("NewLineString", v, r)

CallNewMultiPointFromVertices ==
    /\ op = "init"
    /\ \E vertices \in VerticesInputs :
        \E m \in {NewMultiPointFromVertices(vertices)} :
            Constructed("NewMultiPointFromVertices", vertices,
                        Ret(m, NoError))

CallNewMultiLineString ==
    /\ op = "init"
    /\ \E segments \in SegmentsInputs :
        \E r \in {NewMultiLineString(segments)} :
            Constructed("NewMultiLineString", segments, r)

\* The nesting depth of the collections of a geometry.
RECURSIVE Depth(_)
Depth(g) ==
    IF g.type # TypeGeometryCollection THEN 0
    ELSE LET below == {Depth(g.geometries[i]) : i \in DOMAIN g.geometries} IN
         1 + (IF below = {} THEN 0
              ELSE CHOOSE d \in below : \A e \in below : e <= d)

\* The slices a caller makes around the geometry g it has built.
SlicesAround(g) == {<<g>>, <<NewPoint(<<2, 2>>).val, g>>, <<g, g>>}

\* NewGeometryCollectionFromSlice on an empty slice, or on a slice of
\* geometries the constructors returned, collections included.
CallNewGeometryCollectionFromSlice ==
    /\ \E geometries \in
            (IF op = "init" THEN {<<>>}
             ELSE IF op \in GeometryConstructors /\ err = NoError
                        /\ Depth(out) < MaxDepth
             THEN SlicesAround(out) ELSE {}) :
        \E g \in {NewGeometryCollectionFromSlice(geometries)} :
            Constructed("NewGeometryCollectionFromSlice", geometries,
                        Ret(g, NoError))

\* json.Marshal of the geometry the constructor returned, then
\* GeometryObject.UnmarshalJSON of the document on a new envelope.
CallRoundTrip ==
    /\ op \in GeometryConstructors
    /\ err = NoError
    /\ \E doc \in {Geometry_MarshalJSON(out)} :
        \E l \in {GeometryObject_UnmarshalJSON(recv, doc)} :
        /\ op' = "RoundTrip"
        /\ arg' = doc
        /\ err' = l.err
        /\ recv' = l.recv
    /\ UNCHANGED <<out, caller>>

NextRoundTrip ==
    \/ CallNewMultiPointFromVertices
    \/ CallNewPoint
    \/ CallNewLineString
    \/ CallNewMultiLineString
    \/ CallNewLinearRing
    \/ CallNewPolygon
    \/ CallNewMultiPolygonFromRingSlice
    \/ CallRoundTrip
    \/ CallNewGeometryCollectionFromSlice

SpecRoundTrip == InitRoundTrip /\ [][NextRoundTrip]_vars


\* The coordinate data of a geometry: the content of its data field, and
\* for a collection the variant and the data of each member in order.
RECURSIVE CoordinateData(_)
CoordinateData(g) ==
    CASE g.type = TypePoint -> g.coords
      [] g.type \in {TypeLineString, TypeMultiPoint} -> g.vertices
      [] g.type = TypeMultiLineString -> g.segments
      [] g.type \in {TypePolygon, TypeMultiPolygon} -> g.rings
      [] g.type = TypeGeometryCollection ->
            [i \in 1..Len(g.geometries) |->
                <<g.geometries[i].type, CoordinateData(g.geometries[i])>>]

\* C1 as stated: the document MarshalJSON writes from a geometry that a
\* successful constructor returned decodes with GeometryObject.UnmarshalJSON
\* without error into a geometry of the same variant whose coordinate data
\* equals the original's vertex for vertex, in order and arity.
C1_RoundTrip ==
    op = "RoundTrip" =>
        /\ err = NoError
        /\ recv.geometry.type = out.type
        /\ CoordinateData(recv.geometry) = CoordinateData(out)

\* The coordinates a geometry holds.
RECURSIVE CoordinatesOf(_)
CoordinatesOf(g) ==
    CASE g.type = TypePoint -> {g.coords}
      [] g.type \in {TypeLineString, TypeMultiPoint} ->
            {g.vertices[i] : i \in DOMAIN g.vertices}
      [] g.type = TypeMultiLineString ->
            UNION {{g.segments[i][j] : j \in DOMAIN g.segments[i]} :
                        i \in DOMAIN g.segments}
      [] g.type = TypePolygon ->
            UNION {{g.rings[i][j] : j \in DOMAIN g.rings[i]} :
                        i \in DOMAIN g.rings}
      [] g.type = TypeMultiPolygon ->
            UNION {UNION {{g.rings[i][j][k] : k \in DOMAIN g.rings[i][j]} :
                                j \in DOMAIN g.rings[i]} :
                        i \in DOMAIN g.rings}
      [] g.type = TypeGeometryCollection ->
            UNION {CoordinatesOf(g.geometries[i]) : i \in DOMAIN g.geometries}

\* A coordinate of 2 or 3 components with longitude and latitude in range.
InRange(c) ==
    /\ Len(c) \in {2, 3}
    /\ c[1] >= -180 /\ c[1] <= 180
    /\ c[2] >= -90 /\ c[2] <= 90

\* C9 as stated: every coordinate held by a geometry that a successful
\* public constructor or a successful decode returned has 2 or 3 components,
\* a longitude in [-180,180] and a latitude in [-90,90].
C9_CoordinateInvariant ==
    /\ (op \in GeometryConstructors /\ err = NoError) =>
            \A c \in CoordinatesOf(out) : InRange(c)
    /\ (op = "NewLinearRing" /\ err = NoError) =>
            \A i \in DOMAIN out : InRange(out[i])
    /\ (op = "RoundTrip" /\ err = NoError) =>
            \A c \in CoordinatesOf(recv.geometry) : InRange(c)


-----------------------------------------------------------------------------
(* The per-group rule of multi-polygons, on SpecPoly.                      *)

\* The error NewPolygon gives for the first group it refuses, none if it
\* accepts every group.
RECURSIVE FirstGroupError(_, _)
FirstGroupError(slice, i) ==
    IF i > Len(slice) THEN NoError
    ELSE Bind(NewPolygon(slice[i]), LAMBDA p :
         IF p.err # NoError THEN p.err ELSE FirstGroupError(slice, i + 1))

\* The call treated the groups of slice as NewPolygon treats ring lists and
\* left the multi-polygon m.
AsNewPolygon(slice, m) ==
    /\ err = FirstGroupError(slice, 1)
    /\ err = NoError =>
        /\ Len(m.rings) = Len(slice)
        /\ \A i \in DOMAIN slice : m.rings[i] = NewPolygon(slice[i]).val.rings

\* C11 as stated: NewMultiPolygonFromRingSlice and the MultiPolygon decode
\* accept a ring group iff NewPolygon accepts it, a group of zero rings
\* being refused with ErrPolygonLinearRingCount, with NewPolygon's error
\* otherwise and its reorientation on success; the constructor accepts
\* exactly the inputs whose encoding the decoder accepts.
C11_PerGroupRule ==
    /\ op = "NewMultiPolygonFromRingSlice" =>
        /\ AsNewPolygon(arg, out)
        /\ (err = NoError) <=>
            (GeometryObject_UnmarshalJSON(
                GeometryObject(NilGeometry),
                GeometryDoc(TypeMultiPolygon, jsonRingsSlice(arg), <<>>)).err
             = NoError)
    /\ (op = "DecodeMultiPolygon" /\ arg.coordinates = jsonRingsSlice(caller)
            /\ \A i \in DOMAIN caller : WellFormed(caller[i]))
        => AsNewPolygon(caller, recv.geometry)


-----------------------------------------------------------------------------
(* Specification SpecLine: one call of NewLineString or                    *)
(* NewMultiLineString, or one decode of a LineString or MultiLineString    *)
(* document into a new GeometryObject.                                     *)

\* Segment lists, with those that hold a segment of no vertex.
LineSegmentsInputs ==
    SegmentsInputs
        \cup {<<<<>>>>, <<<<<<0, 0>>, <<2, 0>>>>, <<>>>>,
              <<<<<<0, 0>>>>, <<<<200, 0>>, <<0, 0>>>>>>}

InitLine == InitIdle /\ recv = GeometryObject(NilGeometry)

CallLineNewMultiLineString ==
    /\ op = "init"
    /\ \E segments \in LineSegmentsInputs :
        \E r \in {NewMultiLineString(segments)} :
            Constructed("NewMultiLineString", segments, r)

CallDecodeLineString ==
    /\ op = "init"
    /\ \/ \E v \in VerticesInputs :
            DecodeInto("DecodeLineString",
                       GeometryDoc(TypeLineString, jsonVertices(v), <<>>), v)
       \/ \E raw \in MalformedCoordinates :
            DecodeInto("DecodeLineString",
                       GeometryDoc(TypeLineString, raw, <<>>), <<>>)

CallDecodeMultiLineString ==
    /\ op = "init"
    /\ \/ \E segments \in LineSegmentsInputs :
            DecodeInto("DecodeMultiLineString",
                       GeometryDoc(TypeMultiLineString,
                                   jsonSegments(segments), <<>>),
                       segments)
       \/ \E raw \in MalformedCoordinates :
            DecodeInto("DecodeMultiLineString",
                       GeometryDoc(TypeMultiLineString, raw, <<>>), <<>>)

NextLine ==
    \/ CallNewLineString
    \/ CallLineNewMultiLineString
    \/ CallDecodeLineString
    \/ CallDecodeMultiLineString

SpecLine == InitLine /\ [][NextLine]_vars

\* The error C12 names for a vertex list and for a segment list.
LineError(v) == IF Len(v) < 2 THEN ErrLineStringTooShort ELSE NoError

SegmentsError(segments) ==
    IF Len(segments) = 0 THEN ErrMultiLineStringTooShort
    ELSE IF \E i \in DOMAIN segments : Len(segments[i]) < 2
    THEN ErrLineStringTooShort
    ELSE NoError

\* C12: NewLineString(v) fails with ErrLineStringTooShort iff len(v) < 2;
\* NewMultiLineString(s) fails with ErrMultiLineStringTooShort iff s has no
\* segment, else with ErrLineStringTooShort iff a segment has fewer than 2
\* vertices, else succeeds keeping the segments in order; the decode of a
\* LineString or MultiLineString document whose coordinates are all well
\* formed refuses the same cardinalities with the same errors.
C12_LineCardinality ==
    /\ op = "NewLineString" =>
        /\ Fails(LineError(arg))
        /\ err = NoError => out.vertices = arg
    /\ op = "NewMultiLineString" =>
        /\ Fails(SegmentsError(arg))
        /\ err = NoError => out.segments = arg
    /\ (op = "DecodeLineString" /\ arg.coordinates = jsonVertices(caller)
            /\ WellFormed(<<caller>>)) =>
        /\ Fails(LineError(caller))
        /\ err = NoError => recv.geometry.vertices = caller
    /\ (op = "DecodeMultiLineString"
            /\ arg.coordinates = jsonSegments(caller)
            /\ WellFormed(caller)) =>
        /\ Fails(SegmentsError(caller))
        /\ err = NoError => recv.geometry.segments = caller

\* The document {"type":"MultiLineString","coordinates":[[[0,0],[2,0]],[]]}
\* was refused for its second segment.
C12_Witness ==
    /\ op = "DecodeMultiLineString"
    /\ caller = <<<<<<0, 0>>, <<2, 0>>>>, <<>>>>
    /\ err = ErrLineStringTooShort


-----------------------------------------------------------------------------
(* The decode of geometry collections, on SpecDecode.                      *)

\* What the dispatcher gives for entry i of the geometries member of doc.
ChildDecode(doc, i) ==
    GeometryObject_UnmarshalJSON(GeometryObject(NilGeometry),
                                 doc.geometries[i])

\* The entries of doc that fail to decode.
FailingChildren(doc) ==
    {i \in DOMAIN doc.geometries : ChildDecode(doc, i).err # NoError}

\* C13: the decode of a GeometryCollection document gives a collection with
\* one child per entry of geometries, in document order, each child being
\* what the dispatcher gives for that entry; no entry gives no child and no
\* error; if a child fails at any depth the decode fails with that child's
\* error; the coordinates member is never built, and
\* GeometryCollection.buildCoordinates called directly fails with
\* ErrGeometryCollectionBuildCoordinates.
C13_CollectionDecode ==
    /\ (op = "GeometryObject.UnmarshalJSON"
            /\ arg.type = TypeGeometryCollection) =>
        IF FailingChildren(arg) = {}
        THEN /\ err = NoError
             /\ recv.geometry.type = TypeGeometryCollection
             /\ Len(recv.geometry.geometries) = Len(arg.geometries)
             /\ \A i \in DOMAIN arg.geometries :
                    /\ recv.geometry.geometries[i].type
                            = ChildDecode(arg, i).recv.geometry.type
                    /\ recv.geometry.geometries[i]
                            = ChildDecode(arg, i).recv.geometry
        ELSE \E k \in FailingChildren(arg) :
                /\ \A j \in FailingChildren(arg) : k <= j
                /\ err = ChildDecode(arg, k).err
    /\ op = "GeometryCollection.buildCoordinates" =>
        /\ err = ErrGeometryCollectionBuildCoordinates
        /\ recv \in GeometryReceivers

\* A collection of a collection and a polygon was decoded into two
\* children, the first a collection of two.
C13_Witness ==
    /\ op = "GeometryObject.UnmarshalJSON"
    /\ arg = GeometryDoc(TypeGeometryCollection, JNull,
                         <<docCollection, docPolygon>>)
    /\ err = NoError
    /\ Len(recv.geometry.geometries) = 2
    /\ recv.geometry.geometries[1].type = TypeGeometryCollection
    /\ Len(recv.geometry.geometries[1].geometries) = 2
    /\ recv.geometry.geometries[2].type = TypePolygon

-----------------------------------------------------------------------------
(* Specification SpecBBox: calls of bbox and of the BoundingBox() methods  *)
(* on the vertices a caller holds.                                         *)

MaxBoxVertices == 3

\* The coordinates of the vertices: with and without altitude, altitudes of
\* both signs, one coordinate out of range and one with a single component.
BoxPoints ==
    {<<1, 2>>, <<3, 4>>, <<0, 5>>, <<-10, 0>>, <<10, 20, -200>>,
     <<1, 2, 3>>, <<4, 5, 6>>, <<0, 7, 1>>, <<200, 0>>, <<0>>}

BoxVerticesInputs ==
    UNION {SeqsOfLen(BoxPoints, n) : n \in 0..MaxBoxVertices}

\* The results of constructors that succeeded.
Built(results) == {r.val : r \in {x \in results : x.err = NoError}}

\* The ring that closes the vertices, when they make one: three vertices
\* whose coordinates have both components.
ClosedRings(vertices) ==
    IF /\ Len(vertices) = LinearRingMinimumSize - 1
       /\ \A i \in DOMAIN vertices : Len(vertices[i]) >= coordsMinLen
    THEN Built({NewLinearRing(Append(vertices, vertices[1]))})
    ELSE {}

\* The geometries the public constructors make of the vertices.
BoxGeometries(vertices) ==
    {NewMultiPointFromVertices(vertices)}
    \cup Built({NewLineString(vertices)})
    \cup Built({NewMultiLineString(<<vertices, vertices>>)})
    \cup (IF Len(vertices) > 0 THEN Built({NewPoint(vertices[1])}) ELSE {})
    \cup UNION {Built({NewPolygon(<<ring>>)}) : ring \in ClosedRings(vertices)}
    \cup UNION {Built({NewMultiPolygonFromRingSlice(<<<<ring>>, <<ring>>>>)}) :
                   ring \in ClosedRings(vertices)}
    \cup {NewGeometryCollectionFromSlice(
              <<NewMultiPointFromVertices(vertices),
                NewGeometryCollectionFromSlice(<<>>)>>)}

\* The features that hold one of these geometries, or none.
BoxFeatures(vertices) ==
    {Feature(g, <<>>, <<>>) : g \in BoxGeometries(vertices) \cup {NilGeometry}}

InitBBox ==
    /\ op = "init"
    /\ arg = <<>>
    /\ out = NoValue
    /\ err = NoError
    /\ caller \in BoxVerticesInputs
    /\ recv = NoReceiver

\* After a call on receiver r with the vertices v: box is what it returned;
\* the caller's vertices are as they were.
Boxed(name, r, v, box) ==
    /\ op' = name
    /\ arg' = v
    /\ out' = box
    /\ recv' = r
    /\ UNCHANGED <<err, caller>>

CallBbox ==
    /\ op = "init"
    /\ Boxed("bbox", NoReceiver, caller, bbox(caller))

CallGeometryBoundingBox ==
    /\ op = "init"
    /\ \E g \in BoxGeometries(caller) :
        Boxed("Geometry.BoundingBox", g, Geometry_Vertices(g),
              Geometry_BoundingBox(g))

CallFeatureBoundingBox ==
    /\ op = "init"
    /\ \E f \in BoxFeatures(caller) :
        Boxed("Feature.BoundingBox", f, Feature_Vertices(f),
              Feature_BoundingBox(f))

CallFeatureCollectionBoundingBox ==
    /\ op = "init"
    /\ \E f \in BoxFeatures(caller) :
        \E features \in {<<>>, <<f>>, <<f, Feature(NilGeometry, <<>>, <<>>)>>,
                         <<f, f>>} :
            \E fc \in {NewFeatureCollectionFromFeatures(features)} :
                Boxed("FeatureCollection.BoundingBox", fc,
                      FeatureCollection_Vertices(fc),
                      FeatureCollection_BoundingBox(fc))

NextBBox ==
    \/ CallBbox
    \/ CallGeometryBoundingBox
    \/ CallFeatureBoundingBox
    \/ CallFeatureCollectionBoundingBox

SpecBBox == InitBBox /\ [][NextBBox]_vars

BoxOps ==
    {"bbox", "Geometry.BoundingBox", "Feature.BoundingBox",
     "FeatureCollection.BoundingBox"}

\* BoundingBox.IsValid
IsValid(b) == Len(b) = 0 \/ Len(b) = bboxSize2D \/ Len(b) = bboxSize3D

\* C14: bbox(vertices) has length 0 iff vertices is empty, length 4 iff
\* vertices is non-empty and no vertex has altitude, and length 6 iff at
\* least one vertex has altitude; so BoundingBox() on any geometry, Feature
\* or FeatureCollection returns a box of length 0, 4 or 6 (IsValid()).
C14_BoundingBoxShape ==
    op \in BoxOps =>
        /\ out # RuntimePanic
        /\ IsValid(out)
        /\ Len(out) = 0 <=> Len(arg) = 0
        /\ Len(out) = bboxSize2D <=>
              (Len(arg) > 0 /\ \A i \in DOMAIN arg : ~HasAltitude(arg[i]))
        /\ Len(out) = bboxSize3D <=>
              \E i \in DOMAIN arg : HasAltitude(arg[i])

\* The vertices are valid coordinates: two or three components, longitude
\* and latitude in range.
ValidVertices(vertices) ==
    \A i \in DOMAIN vertices :
        /\ Len(vertices[i]) \in coordsMinLen..coordsMaxLen
        /\ validateCoordinates(Longitude(vertices[i]),
                               Latitude(vertices[i])) = NoError

IsMinimum(x, S) == x \in S /\ \A y \in S : x <= y

IsMaximum(x, S) == x \in S /\ \A y \in S : x >= y

\* C15: for every non-empty list of valid coordinates the box's minLng,
\* minLat, maxLng and maxLat are the exact minimum and maximum longitude and
\* latitude over all vertices, laid out as [minLng,minLat,maxLng,maxLat] in
\* the 2D case and [minLng,minLat,minAlt,maxLng,maxLat,maxAlt] in the 3D
\* case; [{1,2},{3,4},{0,5}] gives [0,2,3,5] and [{1,2,3},{4,5,6},{0,7,1}]
\* gives [0,2,1,4,7,6].
C15_BoundingBoxExtent ==
    (op \in BoxOps /\ Len(arg) > 0 /\ ValidVertices(arg)) =>
        /\ out # RuntimePanic
        /\ Len(out) \in {bboxSize2D, bboxSize3D}
        /\ LET lngs == {Longitude(arg[i]) : i \in DOMAIN arg}
               lats == {Latitude(arg[i]) : i \in DOMAIN arg}
               half == Len(out) \div 2
           IN  /\ IsMinimum(out[1], lngs)
               /\ IsMinimum(out[2], lats)
               /\ IsMaximum(out[half + 1], lngs)
               /\ IsMaximum(out[half + 2], lats)
        /\ arg = <<<<1, 2>>, <<3, 4>>, <<0, 5>>>> => out = <<0, 2, 3, 5>>
        /\ arg = <<<<1, 2, 3>>, <<4, 5, 6>>, <<0, 7, 1>>>> =>
              out = <<0, 2, 1, 4, 7, 6>>

\* The MultiPoint of [{1,2},{3,4},{0,5}] gave the box [0,2,3,5].
C15_Witness ==
    /\ op = "Geometry.BoundingBox"
    /\ recv = MultiPoint(<<<<1, 2>>, <<3, 4>>, <<0, 5>>>>)
    /\ out = <<0, 2, 3, 5>>

\* C16: when at least one vertex has altitude, then if every vertex has
\* altitude minAlt and maxAlt are the exact minimum and maximum of the
\* altitudes, and if some vertex lacks altitude they are the minimum and
\* maximum of the present altitudes together with 0, so minAlt <= 0 <=
\* maxAlt; [{-10,0},{10,20,-200}] gives [-10,0,-200,10,20,0].  The vertices
\* the caller passed are not altered.
C16_AltitudeChannel ==
    /\ (/\ op \in BoxOps
        /\ \A i \in DOMAIN arg : Len(arg[i]) \in coordsMinLen..coordsMaxLen
        /\ \E i \in DOMAIN arg : HasAltitude(arg[i])) =>
          /\ out # RuntimePanic
          /\ Len(out) = bboxSize3D
          /\ LET present == {Altitude(arg[i]) :
                                i \in {j \in DOMAIN arg : HasAltitude(arg[j])}}
             IN  IF \A i \in DOMAIN arg : HasAltitude(arg[i])
                 THEN /\ IsMinimum(out[idxCoordsAlt], present)
                      /\ IsMaximum(out[bboxSize3D], present)
                 ELSE /\ IsMinimum(out[idxCoordsAlt], present \cup {0})
                      /\ IsMaximum(out[bboxSize3D], present \cup {0})
                      /\ out[idxCoordsAlt] <= 0
                      /\ 0 <= out[bboxSize3D]
          /\ arg = <<<<-10, 0>>, <<10, 20, -200>>>> =>
                out = <<-10, 0, -200, 10, 20, 0>>
    /\ op = "bbox" => caller = arg

\* bbox([{-10,0},{10,20,-200}]) gave [-10,0,-200,10,20,0].
C16_Witness ==
    /\ op = "bbox"
    /\ caller = <<<<-10, 0>>, <<10, 20, -200>>>>
    /\ out = <<-10, 0, -200, 10, 20, 0>>

-----------------------------------------------------------------------------
(* Specification SpecObject: a sequence of UnmarshalJSON calls on one      *)
(* Object, with calls of its accessors in between.  The caller keeps the   *)
(* last document that decoded, the Object as it was before the last        *)
(* decode, and the number of decodes made.                                 *)

MaxDecodes == 3

featCollection ==
    FeatureDoc(TypeFeatureCollection, <<>>, JNull, <<>>,
               <<featPoint, featNoGeometry>>)

ObjectSeqDocs ==
    {featPoint, featNoGeometry, featBadGeometry, featCollection,
     FeatureDoc(TypeFeatureCollection, <<>>, JNull, <<>>, <<>>),
     FeatureDoc(TypeFeatureCollection, <<>>, JNull, <<>>,
                <<featPoint, featBadGeometry>>),
     FeatureDoc("Foo", <<docPoint>>, JNull, <<>>, <<>>),
     FeatureDoc("", <<>>, JObj(<<>>), <<>>, <<featPoint>>),
     FeatureDoc("Foo", <<docBadPoint>>, JNull, <<>>, <<>>)}

InitObject ==
    /\ op = "init"
    /\ arg = <<>>
    /\ out = NoValue
    /\ err = NoError
    /\ caller = [last |-> <<>>, before |-> Object("", <<>>, <<>>), calls |-> 0]
    /\ recv = Object("", <<>>, <<>>)

CallObjectDecode ==
    /\ caller.calls < MaxDecodes
    /\ \E doc \in ObjectSeqDocs :
        \E l \in {Object_UnmarshalJSON(recv, doc)} :
            /\ op' = "Object.UnmarshalJSON"
            /\ arg' = doc
            /\ out' = NoValue
            /\ err' = l.err
            /\ recv' = l.recv
            /\ caller' = [last |-> IF l.err = NoError THEN <<doc>>
                                   ELSE caller.last,
                          before |-> recv,
                          calls |-> caller.calls + 1]

\* A call of an accessor: the Object and the caller's record stay.
Accessed(name, result) ==
    /\ op' = name
    /\ out' = result
    /\ UNCHANGED <<arg, err, caller, recv>>

CallObjectType ==
    /\ recv.kind = "Object"
    /\ Accessed("Object.Type", Object_Type(recv))

CallObjectIsFeature ==
    /\ recv.kind = "Object"
    /\ Accessed("Object.IsFeature", Object_IsFeature(recv))

CallObjectIsFeatureCollection ==
    /\ recv.kind = "Object"
    /\ Accessed("Object.IsFeatureCollection", Object_IsFeatureCollection(recv))

CallObjectFeature ==
    /\ recv.kind = "Object"
    /\ Accessed("Object.Feature", Object_Feature(recv))

CallObjectFeatureCollection ==
    /\ recv.kind = "Object"
    /\ Accessed("Object.FeatureCollection", Object_FeatureCollection(recv))

NextObject ==
    \/ CallObjectDecode
    \/ CallObjectType
    \/ CallObjectIsFeature
    \/ CallObjectIsFeatureCollection
    \/ CallObjectFeature
    \/ CallObjectFeatureCollection

SpecObject == InitObject /\ [][NextObject]_vars

\* What the document that decoded last gives when decoded into a new Object.
LastDecoded == Object_UnmarshalJSON(Object("", <<>>, <<>>), caller.last[1]).recv

\* The Object answers for the last successful decode: Type(), the two
\* predicates, Feature() and FeatureCollection().
AnswersForLastDecode ==
    /\ Object_Type(recv) = IF caller.last = <<>> THEN TypeEmptyObject
                           ELSE caller.last[1].type
    /\ caller.last # <<>> =>
          Object_IsFeature(recv) # Object_IsFeatureCollection(recv)
    /\ Object_Feature(recv) =
          IF caller.last # <<>> /\ caller.last[1].type = TypeFeature
          THEN Ret(LastDecoded.feature, NoError)
          ELSE Ret(<<>>, ErrInvalidFeature)
    /\ (caller.last # <<>> /\ caller.last[1].type = TypeFeature) =>
          Len(Object_Feature(recv).val) = 1
    /\ Object_FeatureCollection(recv) =
          IF caller.last # <<>> /\ caller.last[1].type = TypeFeatureCollection
          THEN Ret(LastDecoded.features, NoError)
          ELSE Ret(<<>>, ErrInvalidFeature)
    /\ (caller.last # <<>> /\ caller.last[1].type = TypeFeatureCollection) =>
          Len(Object_FeatureCollection(recv).val) = 1
    /\ op = "Object.Type" => out = Object_Type(recv)
    /\ op = "Object.Feature" => out = Object_Feature(recv)
    /\ op = "Object.FeatureCollection" => out = Object_FeatureCollection(recv)

\* The last document decoded was neither a Feature nor a FeatureCollection.
OtherTypeDecoded ==
    /\ arg # <<>>
    /\ arg.type \notin {TypeFeature, TypeFeatureCollection}

-----------------------------------------------------------------------------
(* The decode of features, on SpecDecode.                                  *)

FeatureOps == {"Feature.UnmarshalJSON", "Feature.Vertices",
               "Feature.BoundingBox"}

\* The properties and id members of the document decode.
OtherMembersDecode(doc) ==
    /\ Properties_UnmarshalJSON(doc.properties).err = NoError
    /\ unmarshalIDMember(doc).err = NoError
    /\ unmarshalFeatures(doc.features, 1, <<>>).err = NoError

\* C18: Feature.UnmarshalJSON succeeds only for documents whose type is
\* "Feature" (a FeatureCollection document fails with ErrInvalidFeature, any
\* other type with an error); a Feature document whose geometry member is
\* absent or null decodes without error to a Feature whose Geometry is nil,
\* whose Vertices() is empty and whose BoundingBox() is the empty box.
C18_FeatureDecode ==
    op \in FeatureOps =>
        /\ err = NoError => arg.type = TypeFeature
        /\ arg.type # TypeFeature => err # NoError
        /\ (arg.type = TypeFeatureCollection
                /\ unmarshalFeaturesJSONInput(arg).err = NoError) =>
              err = ErrInvalidFeature
        /\ (arg.type = TypeFeature /\ arg.geometry = <<>>
                /\ OtherMembersDecode(arg)) =>
              /\ err = NoError
              /\ recv.Geometry = NilGeometry
              /\ Feature_Vertices(recv) = <<>>
              /\ Feature_BoundingBox(recv) = <<>>
              /\ op = "Feature.Vertices" => out = <<>>
              /\ op = "Feature.BoundingBox" => out = <<>>

\* BoundingBox() was called on the Feature decoded from a document without
\* geometry and gave the empty box; the id of the document was decoded.
C18_Witness ==
    /\ op = "Feature.BoundingBox"
    /\ arg = FeatureDoc(TypeFeature, <<>>, JObj(<<<<"name", JStr>>>>),
                        <<JNum(2)>>, <<>>)
    /\ recv.Geometry = NilGeometry
    /\ recv.ID # <<>>
    /\ out = <<>>

\* C19: every decode entry point (UnmarshalJSON of GeometryObject, of each
\* typed geometry, of Feature, of FeatureCollection and of Object) reports
\* an invalid or wrong-kind document as a returned error and never aborts
\* the process; FeatureCollection.UnmarshalJSON of a well-formed document
\* whose type is "Feature" returns an error, and Feature.UnmarshalJSON of a
\* "FeatureCollection" document returns ErrInvalidFeature.
C19_NoFatalDecode ==
    op \in DecodeOps \cup {"FeatureCollection.UnmarshalJSON"} =>
        /\ out # NilDereference
        /\ (op = "FeatureCollection.UnmarshalJSON"
                /\ arg.type # TypeFeatureCollection) => err # NoError
        /\ (op = "Feature.UnmarshalJSON"
                /\ arg.type = TypeFeatureCollection
                /\ unmarshalFeaturesJSONInput(arg).err = NoError) =>
              err = ErrInvalidFeature

-----------------------------------------------------------------------------
(* Builders (vertices.go, segments.go) and specification SpecBuilder: a    *)
(* sequence of Add and Build calls on one builder.  The caller keeps the   *)
(* values it passed to Add, in call order, and the builder as it was       *)
(* before the last call.                                                   *)

ErrVerticesEmpty == <<"ErrVerticesEmpty">>

\* NewVerticesBuilder
NewVerticesBuilder ==
    [kind |-> "VerticesBuilder", vertices |-> <<>>, err |-> NoError]

\* NewSegmentsBuilder
NewSegmentsBuilder ==
    [kind |-> "SegmentsBuilder", segments |-> <<>>, err |-> NoError]

\* VerticesBuilder.Add without the check of the latched error.
VerticesBuilder_Add_noLatch(vb, v) ==
    Bind(NewCoordinates(v), LAMBDA coords :
    IF coords.err # NoError
    THEN [vb EXCEPT !.err = Wrap("failed to create coordinates", coords.err)]
    ELSE [vb EXCEPT !.vertices = Append(@, coords.val)])

\* VerticesBuilder.Add: the builder after the call.
VerticesBuilder_Add(vb, v) ==
    IF vb.err # NoError THEN vb
    ELSE Bind(NewCoordinates(v), LAMBDA coords :
         IF coords.err # NoError
         THEN [vb EXCEPT !.err = Wrap("failed to create coordinates",
                                      coords.err)]
         ELSE [vb EXCEPT !.vertices = Append(@, coords.val)])

\* VerticesBuilder.Build
VerticesBuilder_Build(vb) ==
    IF vb.err # NoError THEN Ret(NoValue, vb.err)
    ELSE Ret(vb.vertices, NoError)

\* SegmentsBuilder.Add: the builder after the call.
SegmentsBuilder_Add(sb, vertices) ==
    IF sb.err # NoError THEN sb
    ELSE IF Len(vertices) = 0 THEN [sb EXCEPT !.err = ErrVerticesEmpty]
    ELSE [sb EXCEPT !.segments = Append(@, vertices)]

\* SegmentsBuilder.Build
SegmentsBuilder_Build(sb) ==
    IF sb.err # NoError THEN Ret(NoValue, sb.err)
    ELSE Ret(sb.segments, NoError)

MaxAdds == 3

\* The slices given to VerticesBuilder.Add: two that NewCoordinates accepts
\* and three it rejects, each with another error.
AddValues == {<<0, 0>>, <<2, 4, 6>>, <<200, 0>>, <<0, 100>>, <<0>>}

\* The vertex lists given to SegmentsBuilder.Add.
AddVertices == {<<>>, <<<<0, 0>>>>, <<<<0, 0>>, <<2, 2>>>>}

InitBuilder ==
    /\ op = "init"
    /\ arg = <<>>
    /\ out = NoValue
    /\ err = NoError
    /\ recv \in {NewVerticesBuilder, NewSegmentsBuilder}
    /\ caller = [adds |-> <<>>, before |-> recv]

\* After Add(v): the builder is b.
Added(name, v, b) ==
    /\ op' = name
    /\ arg' = v
    /\ recv' = b
    /\ caller' = [adds |-> Append(caller.adds, v), before |-> recv]
    /\ UNCHANGED <<out, err>>

\* After Build(): r is what it returned.
BuildReturned(name, r) ==
    /\ op' = name
    /\ out' = r.val
    /\ err' = r.err
    /\ caller' = [caller EXCEPT !.before = recv]
    /\ UNCHANGED <<arg, recv>>

CallVerticesBuilderAdd ==
    /\ recv.kind = "VerticesBuilder"
    /\ Len(caller.adds) < MaxAdds
    /\ \E v \in AddValues :
        Added("VerticesBuilder.Add", v, VerticesBuilder_Add(recv, v))

CallVerticesBuilderBuild ==
    /\ recv.kind = "VerticesBuilder"
    /\ BuildReturned("VerticesBuilder.Build", VerticesBuilder_Build(recv))

CallSegmentsBuilderAdd ==
    /\ recv.kind = "SegmentsBuilder"
    /\ Len(caller.adds) < MaxAdds
    /\ \E vertices \in AddVertices :
        Added("SegmentsBuilder.Add", vertices,
              SegmentsBuilder_Add(recv, vertices))

CallSegmentsBuilderBuild ==
    /\ recv.kind = "SegmentsBuilder"
    /\ BuildReturned("SegmentsBuilder.Build", SegmentsBuilder_Build(recv))

NextBuilder ==
    \/ CallVerticesBuilderAdd
    \/ CallVerticesBuilderBuild
    \/ CallSegmentsBuilderAdd
    \/ CallSegmentsBuilderBuild

SpecBuilder == InitBuilder /\ [][NextBuilder]_vars

\* The error an Add of v latches on a builder of this kind: none when v is
\* valid.
AddError(kind, v) ==
    IF kind = "VerticesBuilder"
    THEN IF NewCoordinates(v).err = NoError THEN NoError
         ELSE Wrap("failed to create coordinates", NewCoordinates(v).err)
    ELSE IF Len(v) = 0 THEN ErrVerticesEmpty ELSE NoError

\* The calls of Add, in call order, that were invalid.
InvalidAdds ==
    {i \in DOMAIN caller.adds : AddError(recv.kind, caller.adds[i]) # NoError}

\* The items the builder has accumulated.
Items(b) == IF b.kind = "VerticesBuilder" THEN b.vertices ELSE b.segments

BuildOps == {"VerticesBuilder.Build", "SegmentsBuilder.Build"}

\* C20: for VerticesBuilder and SegmentsBuilder, over any sequence of Add
\* calls, the first invalid Add latches its error; every later Add, valid or
\* not, leaves the accumulated items and the latched error unchanged; Build
\* then returns no items and that first error.  If no Add was invalid, Build
\* returns exactly the added items in call order with a nil error.  Build
\* never changes the builder.
C20_StickyFirstError ==
    /\ IF InvalidAdds = {}
       THEN /\ recv.err = NoError
            /\ Items(recv) = caller.adds
            /\ op \in BuildOps => (out = caller.adds /\ err = NoError)
       ELSE \E first \in InvalidAdds :
               /\ \A i \in InvalidAdds : first <= i
               /\ recv.err = AddError(recv.kind, caller.adds[first])
               /\ Items(recv) = SubSeq(caller.adds, 1, first - 1)
               /\ op \in BuildOps => (out = NoValue /\ err = recv.err)
    /\ (op \notin BuildOps /\ op # "init" /\ caller.before.err # NoError) =>
          recv = caller.before
    /\ op \in BuildOps => recv = caller.before

\* Three Adds on a VerticesBuilder, the second and third invalid in
\* different ways: Build returned nothing and the error of the second.
C20_Witness ==
    /\ op = "VerticesBuilder.Build"
    /\ caller.adds = <<<<0, 0>>, <<200, 0>>, <<0>>>>
    /\ recv.vertices = <<<<0, 0>>>>
    /\ out = NoValue
    /\ ErrorIs(err, ErrLongitudeRange)

-----------------------------------------------------------------------------
(* Specification SpecTyped: one UnmarshalJSON call on a typed geometry,    *)
(* new or holding a value, with a document of its own variant, of another  *)
(* variant, or one that a coordinate-builder refuses.                      *)

\* Documents that fail to decode, each with the kind of the error its
\* builder raises.
FailingDocs ==
    {<<docBadPoint, ErrLongitudeRange>>,
     <<GeometryDoc(TypePoint, jsonCoordinates(<<0, 100>>), <<>>),
       ErrLatitudeRange>>,
     <<GeometryDoc(TypePoint, jsonCoordinates(<<0>>), <<>>),
       ErrCoordinatesSize>>,
     <<GeometryDoc(TypePoint, JNull, <<>>), ErrInvalidCoordinates>>,
     <<GeometryDoc(TypeMultiPoint, JArr(<<JStr>>), <<>>),
       ErrInvalidCoordinates>>,
     <<docShortLineString, ErrLineStringTooShort>>,
     <<GeometryDoc(TypeMultiLineString, JArr(<<>>), <<>>),
       ErrMultiLineStringTooShort>>,
     <<GeometryDoc(TypeMultiLineString,
                   jsonSegments(<<<<<<0, 0>>, <<2, 0>>>>, <<<<0, 0>>>>>>),
                   <<>>),
       ErrLineStringTooShort>>,
     <<GeometryDoc(TypePolygon, jsonSegments(<<ringShort>>), <<>>),
       ErrLinearRingSize>>,
     <<docPolygonOpenHole, ErrLinearRingClosed>>,
     <<GeometryDoc(TypePolygon, JArr(<<>>), <<>>),
       ErrPolygonLinearRingCount>>,
     <<docMultiPolygonBadGroup, ErrLinearRingSize>>,
     <<GeometryDoc(TypeMultiPolygon, jsonRingsSlice(<<<<>>>>), <<>>),
       ErrPolygonLinearRingCount>>,
     <<GeometryDoc("Foo", jsonCoordinates(<<0, 0>>), <<>>),
       ErrInvalidTypeField>>,
     <<docCollectionBadChild, ErrLongitudeRange>>,
     <<GeometryDoc(TypeGeometryCollection, JNull,
                   <<docPoint, GeometryDoc(TypeGeometryCollection, JNull,
                                           <<docPolygonOpenHole>>)>>),
       ErrLinearRingClosed>>,
     <<GeometryDoc(TypeGeometryCollection, JNull,
                   <<GeometryDoc("Foo", JNull, <<>>)>>),
       ErrInvalidTypeField>>}

\* Documents that decode.
WellFormedDocs == GoodLeafDocs \cup {docCollection}

TypedDocs == WellFormedDocs \cup {p[1] : p \in FailingDocs}

InitTyped ==
    /\ InitIdle
    /\ recv \in GeometryReceivers

CallTypedUnmarshalJSON ==
    /\ op = "init"
    /\ \E doc \in TypedDocs :
        \E l \in {Geometry_UnmarshalJSON(recv, doc)} :
            Decoded(recv.type \o ".UnmarshalJSON", doc, l)

NextTyped == CallTypedUnmarshalJSON

SpecTyped == InitTyped /\ [][NextTyped]_vars

\* The kinds of error the coordinate-builders and the dispatcher raise.
BuilderKinds ==
    {ErrInvalidCoordinates, ErrCoordinatesSize, ErrLongitudeRange,
     ErrLatitudeRange, ErrLineStringTooShort, ErrMultiLineStringTooShort,
     ErrLinearRingSize, ErrLinearRingClosed, ErrPolygonLinearRingCount,
     ErrInvalidTypeField}

\* C21: T.UnmarshalJSON of a well-formed document of another variant returns
\* ErrInvalidTypeField; of a document that fails geometry decoding it
\* returns an error that errors.Is identifies as the kind the builder
\* raised, however deeply the failure is nested.
C21_TypedErrorKinds ==
    op # "init" =>
        /\ arg \in WellFormedDocs =>
              IF arg.type = recv.type THEN err = NoError
              ELSE err = ErrInvalidTypeField
        /\ \A p \in FailingDocs :
              arg = p[1] =>
                  /\ ErrorIs(err, p[2])
                  /\ \A kind \in BuilderKinds \ {p[2]} : ~ErrorIs(err, kind)

\* Polygon.UnmarshalJSON of a collection whose grandchild polygon has an
\* open ring failed with an error that is ErrLinearRingClosed, wrapped.
C21_Witness ==
    /\ op = TypePolygon \o ".UnmarshalJSON"
    /\ arg = GeometryDoc(TypeGeometryCollection, JNull,
                   <<docPoint, GeometryDoc(TypeGeometryCollection, JNull,
                                           <<docPolygonOpenHole>>)>>)
    /\ ErrorIs(err, ErrLinearRingClosed)
    /\ err # ErrLinearRingClosed

-----------------------------------------------------------------------------
(* Specification SpecEqual: IsEqual on two coordinates the caller holds,   *)
(* and IsClosed on a ring that starts with the one and ends with the       *)
(* other.                                                                  *)

\* The coordinates compared: up to MaxCoordLen components.
EqualSamples == SeqsUpTo({0, 2}, MaxCoordLen)

InitEqual ==
    /\ op = "init"
    /\ arg \in EqualSamples \X EqualSamples
    /\ out = NoValue
    /\ err = NoError
    /\ caller = <<>>
    /\ recv = NoReceiver

\* a.IsEqual(b)
CallIsEqual ==
    /\ op = "init"
    /\ op' = "IsEqual"
    /\ out' = IsEqual(arg[1], arg[2])
    /\ UNCHANGED <<arg, err, caller, recv>>

\* lr.IsClosed() on the ring [a, {2,0}, {0,2}, b]
CallIsClosed ==
    /\ op = "init"
    /\ op' = "IsClosed"
    /\ recv' = <<arg[1], <<2, 0>>, <<0, 2>>, arg[2]>>
    /\ out' = IsClosed(<<arg[1], <<2, 0>>, <<0, 2>>, arg[2]>>)
    /\ UNCHANGED <<arg, err, caller>>

NextEqual == CallIsEqual \/ CallIsClosed

SpecEqual == InitEqual /\ [][NextEqual]_vars

\* C22: IsEqual(a, b) is true iff a and b have the same number of components
\* and equal components position by position; a 2-component and a
\* 3-component coordinate with equal longitude and latitude are not equal,
\* so a ring whose first vertex is 2D and whose last vertex is the same
\* point in 3D is not closed.
C22_CoordinateEquality ==
    op \in {"IsEqual", "IsClosed"} =>
        /\ out = (/\ Len(arg[1]) = Len(arg[2])
                  /\ \A i \in 1..Len(arg[1]) : arg[1][i] = arg[2][i])
        /\ (/\ Len(arg[1]) = coordsMinLen
            /\ Len(arg[2]) = coordsMaxLen
            /\ arg[1][idxCoordsLng] = arg[2][idxCoordsLng]
            /\ arg[1][idxCoordsLat] = arg[2][idxCoordsLat]) => out = FALSE

\* The ring [{0,2}, {2,0}, {0,2}, {0,2,0}] was found not to be closed.
C22_Witness ==
    /\ op = "IsClosed"
    /\ arg = <<<<0, 2>>, <<0, 2, 0>>>>
    /\ recv[4] = <<0, 2, 0>>
    /\ out = FALSE

-----------------------------------------------------------------------------
(* SpecArea: LinearRing.Area on closed rings.  The ring under measure is   *)
(* drawn in Init and kept in caller; each action measures the ring, the    *)
(* ring in reverse order, or the ring with an altitude on every vertex.    *)

MaxBodyLen == 4

AreaPoints == {<<0, 0>>, <<2, 2>>, <<0, 14>>, <<14, 6>>, <<8, 14>>}

Altitudes == {6, 30}

squareRing == <<<<0, 0>>, <<0, 2>>, <<2, 2>>, <<2, 0>>, <<0, 0>>>>

bowtieRing == <<<<0, 0>>, <<4, 4>>, <<4, 0>>, <<0, 4>>, <<0, 0>>>>

\* A body of vertices, closed by a copy of its first vertex, and the two
\* rings of TestLinearRing_Area that C23 names.
AreaRings ==
    {body \o <<body[1]>> : body \in SeqsUpTo(AreaPoints, MaxBodyLen) \ {<<>>}}
        \cup {squareRing, bowtieRing}

InitArea ==
    /\ op = "init"
    /\ arg = <<>>
    /\ out = NoValue
    /\ err = NoError
    /\ recv = <<>>
    /\ caller \in {[ring |-> r] : r \in AreaRings}

Measured(name, ring) ==
    /\ op' = name
    /\ arg' = ring
    /\ out' = Area(ring)
    /\ UNCHANGED <<err, caller, recv>>

CallArea ==
    /\ Len(caller.ring) > 0
    /\ Measured("Area", caller.ring)

CallAreaReversed ==
    /\ Len(caller.ring) > 0
    /\ Measured("AreaReversed", slicesReverse(caller.ring))

CallAreaRaised ==
    /\ Len(caller.ring) > 0
    /\ \E h \in Altitudes :
        Measured("AreaRaised",
                 [i \in DOMAIN caller.ring |-> caller.ring[i] \o <<h>>])

NextArea == CallArea \/ CallAreaReversed \/ CallAreaRaised

SpecArea == InitArea /\ [][NextArea]_vars

AreaOps == {"Area", "AreaReversed", "AreaRaised"}

Abs(x) == IF x < 0 THEN -x ELSE x

\* The pair of vertices k and k+1 of a ring contributes lng(k)*lat(k+1)
\* - lng(k+1)*lat(k), each product and the difference rounded.
PairTerm(ring, k) ==
    RoundFloat64(RoundFloat64(ring[k][1] * ring[k + 1][2])
                 - RoundFloat64(ring[k + 1][1] * ring[k][2]))

\* The shoelace sum over the consecutive pairs, the closing pair included,
\* added first pair first.
PairSum(ring) ==
    LET partial[k \in 0..(Len(ring) - 1)] ==
            IF k = 0 THEN 0
            ELSE RoundFloat64(partial[k - 1] + PairTerm(ring, k))
    IN  partial[Len(ring) - 1]

\* The same sum in unbounded precision.
ExactPairSum(ring) ==
    LET partial[k \in 0..(Len(ring) - 1)] ==
            IF k = 0 THEN 0
            ELSE partial[k - 1] + ring[k][1] * ring[k + 1][2]
                                - ring[k + 1][1] * ring[k][2]
    IN  partial[Len(ring) - 1]

\* No step of the sum is rounded, in the ring's order or in reverse: every
\* partial sum of the terms, from either end, is a value of the format.
RECURSIVE SumsExactFrom(_, _, _, _)
SumsExactFrom(ring, k, step, v) ==
    IF k < 1 \/ k > Len(ring) - 1 THEN TRUE
    ELSE LET x1y2 == ring[k][1] * ring[k + 1][2]
             x2y1 == ring[k + 1][1] * ring[k][2]
             next == v + x1y2 - x2y1
         IN  /\ RoundFloat64(x1y2) = x1y2
             /\ RoundFloat64(x2y1) = x2y1
             /\ RoundFloat64(x1y2 - x2y1) = x1y2 - x2y1
             /\ RoundFloat64(next) = next
             /\ SumsExactFrom(ring, k + step, step, next)

SumIsExact(ring) ==
    /\ SumsExactFrom(ring, 1, 1, 0)
    /\ SumsExactFrom(ring, Len(ring) - 1, -1, 0)

\* What C23 says of every measure but the reversed one: Area is the absolute
\* value of half the shoelace sum over the consecutive pairs up to the
\* closing pair, is never negative, reads longitude and latitude only, and
\* is 4 for the square and 0 for the bowtie.
AreaFormula ==
    op \in AreaOps =>
        /\ out >= 0
        /\ 2 * out = Abs(PairSum(arg))
        /\ op = "AreaRaised" => out = Area(caller.ring)
        /\ caller.ring = squareRing => out = 4
        /\ caller.ring = bowtieRing => out = 0

-----------------------------------------------------------------------------
(* SpecID: a sequence of NewStringID, NewNumericID and ID.UnmarshalJSON on *)
(* one ID variable (id.go).  An ID is its two pointers s and n, each nil   *)
(* (the empty sequence) or set; recv is the variable, and caller keeps the *)
(* value it had before the last call.                                      *)

ID(s, n) == [kind |-> "ID", s |-> s, n |-> n]

NewStringID(s) == ID(<<s>>, <<>>)

NewNumericID(n) == ID(<<>>, <<n>>)

\* ID.StringValue: the value and whether it is set.
ID_StringValue(id) ==
    IF id.s # <<>> THEN <<id.s[1], TRUE>> ELSE <<"", FALSE>>

\* ID.NumberValue: the value and whether it is set.
ID_NumberValue(id) ==
    IF id.n # <<>> THEN <<id.n[1], TRUE>> ELSE <<0, FALSE>>

\* A JSON string token and a JSON boolean token.
JString(s) == [k |-> "str", n |-> 0, a |-> <<>>, s |-> s]

JBool(b) == [k |-> "bool", n |-> IF b THEN 1 ELSE 0, a |-> <<>>]

\* Bytes that are no JSON value: json.Unmarshal into interface{} fails.
JMalformed == [k |-> "malformed", n |-> 0, a |-> <<>>]

ErrJSONSyntax == <<"json.SyntaxError">>

\* A decode that sets the pointer of the token's kind and leaves the other.
ID_UnmarshalJSON_into_keepOther(id, bytes) ==
    IF bytes.k = "malformed"
    THEN Left(id, Wrap("failed to unmarshal ID", ErrJSONSyntax))
    ELSE IF bytes.k = "str" THEN Left(ID(<<bytes.s>>, id.n), NoError)
    ELSE IF bytes.k = "num" THEN Left(ID(id.s, <<bytes.n>>), NoError)
    ELSE Left(id, ErrInvalidID)

\* ID.UnmarshalJSON on the variable id: the variable afterwards and the
\* error.  *id = *NewStringID(value) or *id = *NewNumericID(value).
ID_UnmarshalJSON_into(id, bytes) ==
    IF bytes.k = "malformed"
    THEN Left(id, Wrap("failed to unmarshal ID", ErrJSONSyntax))
    ELSE IF bytes.k = "str" THEN Left(NewStringID(bytes.s), NoError)
    ELSE IF bytes.k = "num" THEN Left(NewNumericID(bytes.n), NoError)
    ELSE Left(id, ErrInvalidID)

IDStrings == {"", "a", "b"}

IDNumbers == {0, 2, -4}

IDTokens ==
    {JString(s) : s \in IDStrings} \cup {JNum(n) : n \in IDNumbers}
        \cup {JBool(TRUE), JBool(FALSE), JNull, JObj(<<>>),
              JArr(<<>>), JArr(<<JNum(2)>>), JMalformed}

\* var id ID: both pointers nil.
InitID ==
    /\ op = "init"
    /\ arg = <<>>
    /\ out = NoValue
    /\ err = NoError
    /\ caller = [before |-> ID(<<>>, <<>>)]
    /\ recv = ID(<<>>, <<>>)

\* id = *NewStringID(s)
CallNewStringID ==
    \E s \in IDStrings :
        /\ op' = "NewStringID"
        /\ arg' = s
        /\ recv' = NewStringID(s)
        /\ err' = NoError
        /\ caller' = [before |-> recv]
        /\ UNCHANGED out

\* id = *NewNumericID(n)
CallNewNumericID ==
    \E n \in IDNumbers :
        /\ op' = "NewNumericID"
        /\ arg' = n
        /\ recv' = NewNumericID(n)
        /\ err' = NoError
        /\ caller' = [before |-> recv]
        /\ UNCHANGED out

CallIDUnmarshalJSON ==
    \E bytes \in IDTokens :
        \E l \in {ID_UnmarshalJSON_into(recv, bytes)} :
            /\ op' = "ID.UnmarshalJSON"
            /\ arg' = bytes
            /\ recv' = l.recv
            /\ err' = l.err
            /\ caller' = [before |-> recv]
            /\ UNCHANGED out

NextID == CallNewStringID \/ CallNewNumericID \/ CallIDUnmarshalJSON

SpecID == InitID /\ [][NextID]_vars

-----------------------------------------------------------------------------
(* SpecProps: Properties.Set and Properties.GetInt on one Properties       *)
(* variable (coordinates.go).  A stored interface{} value is its dynamic   *)
(* type and its value; a float64 is kept as twice its value, so that 3     *)
(* stands for 1.5.  recv is the map: isNil for the nil map, m for its      *)
(* entries.                                                                *)

ErrKeyEmpty == <<"ErrKeyEmpty">>

ErrPropertyNotFound == <<"ErrPropertyNotFound">>

ErrInvalidInt == <<"ErrInvalidInt">>

GoInt(n) == [t |-> "int", twice |-> 2 * n]

GoFloat64(twice) == [t |-> "float64", twice |-> twice]

GoString == [t |-> "string", twice |-> 0]

GoNil == [t |-> "nil", twice |-> 0]

PropertiesMap(isNil, m) == [kind |-> "Properties", isNil |-> isNil, m |-> m]

\* Properties.Set: the map afterwards and the error.
Properties_Set(p, key, value) ==
    IF key = "" THEN Left(p, ErrKeyEmpty)
    ELSE Left(PropertiesMap(FALSE,
                  [k \in DOMAIN p.m \cup {key} |->
                      IF k = key THEN value ELSE p.m[k]]),
              NoError)

\* int(f) of a float64 f: the fraction is dropped, towards zero.
intOfFloat64(twice) == IF twice < 0 THEN -((-twice) \div 2) ELSE twice \div 2

\* Properties.GetInt
Properties_GetInt(p, key) ==
    IF DOMAIN p.m = {} THEN Ret(0, ErrPropertyNotFound)
    ELSE IF key \notin DOMAIN p.m THEN Ret(0, ErrPropertyNotFound)
    ELSE IF p.m[key].t # "float64" THEN Ret(0, ErrInvalidInt)
    ELSE Ret(intOfFloat64(p.m[key].twice), NoError)

PropertyKeys == {"", "a", "b"}

PropertyValues ==
    {GoInt(2), GoInt(-3), GoFloat64(4), GoFloat64(3), GoFloat64(-3),
     GoString, GoNil}

\* var p Properties, or p := Properties{}.
InitProps ==
    /\ op = "init"
    /\ arg = <<>>
    /\ out = NoValue
    /\ err = NoError
    /\ caller = <<>>
    /\ recv \in {PropertiesMap(isNil, <<>>) : isNil \in BOOLEAN}

CallPropertiesSet ==
    \E key \in PropertyKeys, value \in PropertyValues :
        \E l \in {Properties_Set(recv, key, value)} :
            /\ op' = "Set"
            /\ arg' = <<key, value>>
            /\ recv' = l.recv
            /\ err' = l.err
            /\ UNCHANGED <<out, caller>>

CallPropertiesGetInt ==
    \E key \in PropertyKeys :
        \E r \in {Properties_GetInt(recv, key)} :
            /\ op' = "GetInt"
            /\ arg' = <<key>>
            /\ out' = r.val
            /\ err' = r.err
            /\ UNCHANGED <<recv, caller>>

NextProps == CallPropertiesSet \/ CallPropertiesGetInt

SpecProps == InitProps /\ [][NextProps]_vars

\* The stored value is an integer: a Go integer, or a float64 without a
\* fraction.
IsIntegerValue(v) ==
    \/ v.t = "int"
    \/ v.t = "float64" /\ v.twice % 2 = 0

\* C25: GetInt(key) returns the stored value when the value stored under key
\* is an integer, fails with ErrPropertyNotFound when the key is absent and
\* with ErrInvalidInt when the stored value is not an integer: after a
\* successful Set(key, n) with an integer n it returns n and no error, and
\* for a stored number with a fraction it returns an error.
C25_PropertiesGetInt ==
    op = "GetInt" =>
        LET key == arg[1]
        IN  IF key \notin DOMAIN recv.m THEN err = ErrPropertyNotFound
            ELSE IF IsIntegerValue(recv.m[key])
                 THEN err = NoError /\ 2 * out = recv.m[key].twice
                 ELSE err = ErrInvalidInt

-----------------------------------------------------------------------------
(* SpecOrient: NewLinearRing and then calls of EnsureOrientation on the    *)
(* ring it returned.  out is the ring's contents; caller keeps the         *)
(* contents before the last call.                                          *)

MaxOrientLen == 4

\* Three corners of a triangle, and three points of the meridian -14 whose
\* shoelace sum is rounded.
OrientPoints ==
    {<<0, 0>>, <<2, 0>>, <<0, 2>>, <<-14, 12>>, <<-14, -10>>, <<-14, 2>>}

OrientInputs == SeqsUpTo(OrientPoints, MaxOrientLen)

InitOrient ==
    /\ op = "init"
    /\ arg = <<>>
    /\ out = NoValue
    /\ err = NoError
    /\ recv = NoReceiver
    /\ caller = [before |-> <<>>]

CallOrientNewLinearRing ==
    /\ op = "init"
    /\ \E vertices \in OrientInputs :
        \E r \in {NewLinearRing(vertices)} :
        /\ op' = "NewLinearRing"
        /\ arg' = vertices
        /\ out' = r.val
        /\ err' = r.err
        /\ caller' = [before |-> vertices]
    /\ UNCHANGED recv

CallOrientEnsureOrientation ==
    /\ op \in {"NewLinearRing", "EnsureOrientation"}
    /\ err = NoError
    /\ \E w \in BOOLEAN :
        /\ op' = "EnsureOrientation"
        /\ arg' = w
        /\ out' = EnsureOrientation(out, w)
        /\ caller' = [before |-> out]
    /\ UNCHANGED <<err, recv>>

NextOrient == CallOrientNewLinearRing \/ CallOrientEnsureOrientation

SpecOrient == InitOrient /\ [][NextOrient]_vars

\* The two rings hold the same vertices, each as many times.
SameVertices(a, b) ==
    \A v \in {a[i] : i \in DOMAIN a} \cup {b[i] : i \in DOMAIN b} :
        Cardinality({i \in DOMAIN a : a[i] = v})
            = Cardinality({i \in DOMAIN b : b[i] = v})

\* What C26 says of the vertices: the ring is untouched when its orientation
\* is the one asked for and exactly reversed otherwise; its length, its
\* closure and the multiset of its vertices are unchanged.
OrientationFrame ==
    /\ IsCounterClockwise(caller.before) = arg => out = caller.before
    /\ IsCounterClockwise(caller.before) # arg =>
           out = slicesReverse(caller.before)
    /\ Len(out) = Len(caller.before)
    /\ IsClosed(out)
    /\ SameVertices(out, caller.before)

-----------------------------------------------------------------------------
(* The caller's rings after a constructor failed, on SpecPoly: arg is the  *)
(* input as it was passed, caller the same rings after the call.           *)

\* C27: when NewPolygon or NewMultiPolygonFromRingSlice returns an error,
\* every ring the caller passed in still has its original vertex order: no
\* ring of any group has been reversed.
C27_FailureLeavesInput ==
    (op \in {"NewPolygon", "NewMultiPolygonFromRingSlice"} /\ err # NoError)
        => caller = arg

-----------------------------------------------------------------------------
(* SpecOwn: a constructor, then writes through the slice the caller passed *)
(* and through the slices the accessors return.  No constructor copies its *)
(* argument: the geometry keeps the caller's slice header, so the caller's *)
(* slice and the geometry's field are one backing array, and a write to an *)
(* element of the one is a write to the other.  recv is the geometry;      *)
(* caller keeps what Vertices() and BoundingBox() gave right after the     *)
(* construction; out is the slice the last accessor returned.              *)

\* The field a geometry keeps its data in.
GeometryData(g) ==
    CASE g.type \in {TypeLineString, TypeMultiPoint} -> g.vertices
      [] g.type = TypeMultiLineString -> g.segments
      [] g.type \in {TypePolygon, TypeMultiPolygon} -> g.rings
      [] g.type = TypeGeometryCollection -> g.geometries

WithGeometryData(g, d) ==
    CASE g.type \in {TypeLineString, TypeMultiPoint} ->
            [g EXCEPT !.vertices = d]
      [] g.type = TypeMultiLineString -> [g EXCEPT !.segments = d]
      [] g.type \in {TypePolygon, TypeMultiPolygon} -> [g EXCEPT !.rings = d]
      [] g.type = TypeGeometryCollection -> [g EXCEPT !.geometries = d]

\* How many indices lead from the data to one vertex, or to one child of a
\* collection.
DataDepth(g) ==
    CASE g.type \in {TypeLineString, TypeMultiPoint} -> 1
      [] g.type \in {TypeMultiLineString, TypePolygon} -> 2
      [] g.type = TypeMultiPolygon -> 3
      [] g.type = TypeGeometryCollection -> 1

\* s[i]...[k] = x
RECURSIVE StoreAt(_, _, _)
StoreAt(s, path, x) ==
    IF Len(path) = 1 THEN [s EXCEPT ![path[1]] = x]
    ELSE [s EXCEPT ![path[1]] = StoreAt(s[path[1]], Tail(path), x)]

\* The index paths of the given length into a slice of slices.
RECURSIVE IndexPaths(_, _)
IndexPaths(s, depth) ==
    IF depth = 1 THEN {<<i>> : i \in DOMAIN s}
    ELSE UNION {{<<i>> \o p : p \in IndexPaths(s[i], depth - 1)} :
                   i \in DOMAIN s}

\* What the caller writes: a vertex, or a child of a collection.
MaxWrites == 2

WrittenInto(g) ==
    IF g.type = TypeGeometryCollection THEN NewPoint(<<6, 6>>).val
    ELSE <<6, 6>>

OwnVertices == SeqsUpTo({<<0, 0>>, <<2, 2>>}, MaxVertices)

OwnSegments == SeqsUpTo({<<<<0, 0>>, <<2, 2>>>>, <<<<2, 2>>>>}, MaxSegments)

OwnRings == SeqsUpTo({ringCCW, ringCW, ringShort}, MaxRings)

OwnGroups == SeqsUpTo({<<ringCW>>, <<ringCCW, ringCCW>>}, MaxGroups)

OwnChildren ==
    SeqsUpTo({NewPoint(<<2, 2>>).val,
              NewMultiPointFromVertices(<<<<0, 0>>, <<2, 2>>>>)},
             MaxChildren)

InitOwn == InitIdle /\ recv = NoReceiver

\* The constructor returned r for the argument a.
Owned(name, a, r) ==
    /\ op' = name
    /\ arg' = a
    /\ out' = NoValue
    /\ err' = r.err
    /\ recv' = IF r.err = NoError THEN r.val ELSE recv
    /\ caller' = IF r.err # NoError THEN caller
                 ELSE [first |-> Geometry_Vertices(r.val),
                       box |-> Geometry_BoundingBox(r.val),
                       writes |-> 0]

CallOwnNewLineString ==
    /\ op = "init"
    /\ \E v \in OwnVertices :
        \E r \in {NewLineString(v)} : Owned("NewLineString", v, r)

CallOwnNewMultiPointFromVertices ==
    /\ op = "init"
    /\ \E vertices \in OwnVertices :
        \E m \in {NewMultiPointFromVertices(vertices)} :
            Owned("NewMultiPointFromVertices", vertices, Ret(m, NoError))

CallOwnNewMultiLineString ==
    /\ op = "init"
    /\ \E segments \in OwnSegments :
        \E r \in {NewMultiLineString(segments)} :
            Owned("NewMultiLineString", segments, r)

CallOwnNewPolygon ==
    /\ op = "init"
    /\ \E rings \in OwnRings :
        \E r \in {NewPolygon(rings)} : Owned("NewPolygon", rings, r)

CallOwnNewMultiPolygonFromRingSlice ==
    /\ op = "init"
    /\ \E slice \in OwnGroups :
        \E r \in {NewMultiPolygonFromRingSlice(slice)} :
            Owned("NewMultiPolygonFromRingSlice", slice, r)

CallOwnNewGeometryCollectionFromSlice ==
    /\ op = "init"
    /\ \E geometries \in OwnChildren :
        \E g \in {NewGeometryCollectionFromSlice(geometries)} :
            Owned("NewGeometryCollectionFromSlice", geometries,
                  Ret(g, NoError))

HoldsGeometry == op # "init" /\ err = NoError

Written == [caller EXCEPT !.writes = caller.writes + 1]

\* v[i] = x, segments[i][j] = x, ... through the slice that was passed to
\* the constructor.
CallWriteThroughInput ==
    /\ HoldsGeometry
    /\ caller.writes < MaxWrites
    /\ \E path \in IndexPaths(GeometryData(recv), DataDepth(recv)) :
        /\ op' = "WriteThroughInput"
        /\ recv' = WithGeometryData(recv,
                       StoreAt(GeometryData(recv), path, WrittenInto(recv)))
    /\ caller' = Written
    /\ UNCHANGED <<arg, out, err>>

\* Vertices(): the field itself of a LineString or MultiPoint, and a new
\* slice the vertices were appended to for the other variants.
CallAccessVertices ==
    /\ HoldsGeometry
    /\ op' = "Vertices"
    /\ out' = [of |-> "Vertices", val |-> Geometry_Vertices(recv),
               shared |-> recv.type \in {TypeLineString, TypeMultiPoint}]
    /\ UNCHANGED <<arg, err, caller, recv>>

\* Segments(), LinearRings(), LinearRingsSlice(), Geometries(): the field.
CallAccessField ==
    /\ HoldsGeometry
    /\ recv.type \in {TypeMultiLineString, TypePolygon, TypeMultiPolygon,
                      TypeGeometryCollection}
    /\ op' = "Field"
    /\ out' = [of |-> "Field", val |-> GeometryData(recv), shared |-> TRUE]
    /\ UNCHANGED <<arg, err, caller, recv>>

\* A write to an element of the slice the last accessor returned.
CallWriteThroughResult ==
    /\ HoldsGeometry
    /\ op \in {"Vertices", "Field"}
    /\ caller.writes < MaxWrites
    /\ \E path \in IndexPaths(out.val,
                              IF out.of = "Vertices" THEN 1
                              ELSE DataDepth(recv)) :
        LET x == IF out.of = "Vertices" THEN <<6, 6>> ELSE WrittenInto(recv)
        IN  /\ op' = "WriteThroughResult"
            /\ out' = [out EXCEPT !.val = StoreAt(out.val, path, x)]
            /\ recv' = IF out.shared
                       THEN WithGeometryData(recv,
                                StoreAt(GeometryData(recv), path, x))
                       ELSE recv
    /\ caller' = Written
    /\ UNCHANGED <<arg, err>>

NextOwn ==
    \/ CallOwnNewLineString
    \/ CallOwnNewMultiPointFromVertices
    \/ CallOwnNewMultiLineString
    \/ CallOwnNewPolygon
    \/ CallOwnNewMultiPolygonFromRingSlice
    \/ CallOwnNewGeometryCollectionFromSlice
    \/ CallWriteThroughInput
    \/ CallAccessVertices
    \/ CallAccessField
    \/ CallWriteThroughResult

SpecOwn == InitOwn /\ [][NextOwn]_vars

\* C28: a geometry the constructors returned shares no mutable data with
\* its caller: whatever is written through the slice that was passed in or
\* through the slices the accessors returned, Vertices() and BoundingBox()
\* return what they returned after the construction.
C28_GeometriesOwnData ==
    HoldsGeometry =>
        /\ Geometry_Vertices(recv) = caller.first
        /\ Geometry_BoundingBox(recv) = caller.box

-----------------------------------------------------------------------------
(* SpecGraph: geometries as objects in memory.  A Geometry interface value *)
(* is a pointer, here the index of the object in recv.objects; a           *)
(* collection's geometries field holds the pointers of its children.  The  *)
(* actions are the constructors, the accessor Geometries, the decode of a  *)
(* collection and the traversals Vertices and BoundingBox.                 *)

MaxObjects == 3

\* The goroutine stack is bounded; the model's stack holds one frame more
\* than there are objects.
StackDepth == MaxObjects + 1

StackOverflow == [panic |-> TRUE, val |-> <<>>]

Returned(v) == [panic |-> FALSE, val |-> v]

RECURSIVE Heap_Vertices(_, _, _)
RECURSIVE Heap_appendChildren(_, _, _, _)

\* The loop of GeometryCollection.Vertices: v = append(v, g.Vertices()...)
\* from child i on.
Heap_appendChildren(objects, children, i, frames) ==
    IF i > Len(children) THEN Returned(<<>>)
    ELSE Bind(Heap_Vertices(objects, children[i], frames), LAMBDA v :
         IF v.panic THEN StackOverflow
         ELSE Bind(Heap_appendChildren(objects, children, i + 1, frames),
                   LAMBDA rest :
              IF rest.panic THEN StackOverflow
              ELSE Returned(v.val \o rest.val)))

\* g.Vertices() on the object at pointer a, with so many stack frames left.
Heap_Vertices(objects, a, frames) ==
    IF frames = 0 THEN StackOverflow
    ELSE IF objects[a].type # TypeGeometryCollection
         THEN Returned(Geometry_Vertices(objects[a]))
         ELSE Heap_appendChildren(objects, objects[a].geometries, 1,
                                  frames - 1)

\* g.BoundingBox(): bbox(g.Vertices())
Heap_BoundingBox(objects, a, frames) ==
    Bind(Heap_Vertices(objects, a, frames), LAMBDA v :
    IF v.panic THEN StackOverflow ELSE Returned(bbox(v.val)))

RECURSIVE Heap_allocate(_, _)
RECURSIVE Heap_allocateAll(_, _, _, _)

\* The objects a decode makes for the geometries gs, from i on: the memory
\* afterwards and the pointers of the new objects.
Heap_allocateAll(objects, gs, i, pointers) ==
    IF i > Len(gs) THEN [objects |-> objects, pointers |-> pointers]
    ELSE Bind(Heap_allocate(objects, gs[i]), LAMBDA r :
         Heap_allocateAll(r.objects, gs, i + 1,
                          Append(pointers, Len(r.objects))))

\* The object a decode makes for the geometry g, after its children's.
Heap_allocate(objects, g) ==
    IF g.type # TypeGeometryCollection
    THEN [objects |-> Append(objects, g), pointers |-> <<>>]
    ELSE Bind(Heap_allocateAll(objects, g.geometries, 1, <<>>), LAMBDA r :
         [objects |-> Append(r.objects, GeometryCollection(r.pointers)),
          pointers |-> <<>>])

\* A decode that keeps the receiver among the children it assigns.
Heap_UnmarshalJSON_keepsReceiver(objects, a, doc) ==
    Bind(GeometryCollection_UnmarshalJSON(GeometryCollection(<<>>), doc),
         LAMBDA l :
    IF l.err # NoError THEN [objects |-> objects, err |-> l.err]
    ELSE Bind(Heap_allocateAll(objects, l.recv.geometries, 1, <<>>),
              LAMBDA r :
         [objects |-> [r.objects EXCEPT ![a].geometries = <<a>> \o r.pointers],
          err |-> NoError]))

\* GeometryCollection.UnmarshalJSON on the collection at pointer a:
\* g.geometries = gc.geometries, the children being new objects.
Heap_UnmarshalJSON(objects, a, doc) ==
    Bind(GeometryCollection_UnmarshalJSON(GeometryCollection(<<>>), doc),
         LAMBDA l :
    IF l.err # NoError THEN [objects |-> objects, err |-> l.err]
    ELSE Bind(Heap_allocateAll(objects, l.recv.geometries, 1, <<>>),
              LAMBDA r :
         [objects |-> [r.objects EXCEPT ![a].geometries = r.pointers],
          err |-> NoError]))

Memory(objects) == [kind |-> "memory", objects |-> objects]

Collections == {a \in DOMAIN recv.objects :
                   recv.objects[a].type = TypeGeometryCollection}

GraphVertices == {<<<<2, 2>>, <<0, 2>>>>}

GraphDocs ==
    {docCollection, docPoint,
     GeometryDoc(TypeGeometryCollection, JNull,
                 <<GeometryDoc(TypeGeometryCollection, JNull, <<docPoint>>)>>)}

InitGraph == InitIdle /\ recv = Memory(<<>>)

CallGraphNewMultiPointFromVertices ==
    /\ Len(recv.objects) < MaxObjects
    /\ \E vertices \in GraphVertices :
        /\ op' = "NewMultiPointFromVertices"
        /\ arg' = vertices
        /\ recv' = Memory(Append(recv.objects,
                                 NewMultiPointFromVertices(vertices)))
        /\ out' = Len(recv.objects) + 1
    /\ err' = NoError
    /\ UNCHANGED caller

\* The slice holds pointers the caller has: objects that exist.
CallGraphNewGeometryCollectionFromSlice ==
    /\ Len(recv.objects) < MaxObjects
    /\ \E geometries \in SeqsUpTo(DOMAIN recv.objects, MaxChildren) :
        /\ op' = "NewGeometryCollectionFromSlice"
        /\ arg' = geometries
        /\ recv' = Memory(Append(recv.objects,
                                 NewGeometryCollectionFromSlice(geometries)))
        /\ out' = Len(recv.objects) + 1
    /\ err' = NoError
    /\ UNCHANGED caller

CallGraphGeometries ==
    /\ \E a \in Collections :
        /\ op' = "Geometries"
        /\ arg' = a
        /\ out' = recv.objects[a].geometries
    /\ err' = NoError
    /\ UNCHANGED <<caller, recv>>

CallGraphUnmarshalJSON ==
    /\ \E a \in Collections, doc \in GraphDocs :
        \E r \in {Heap_UnmarshalJSON(recv.objects, a, doc)} :
            /\ Len(r.objects) <= MaxObjects
            /\ op' = "GeometryCollection.UnmarshalJSON"
            /\ arg' = a
            /\ recv' = Memory(r.objects)
            /\ err' = r.err
            /\ out' = NoValue
    /\ UNCHANGED caller

CallGraphVertices ==
    /\ \E a \in DOMAIN recv.objects :
        /\ op' = "Vertices"
        /\ arg' = a
        /\ out' = Heap_Vertices(recv.objects, a, StackDepth)
    /\ err' = NoError
    /\ UNCHANGED <<caller, recv>>

CallGraphBoundingBox ==
    /\ \E a \in DOMAIN recv.objects :
        /\ op' = "BoundingBox"
        /\ arg' = a
        /\ out' = Heap_BoundingBox(recv.objects, a, StackDepth)
    /\ err' = NoError
    /\ UNCHANGED <<caller, recv>>

NextGraph ==
    \/ CallGraphNewMultiPointFromVertices
    \/ CallGraphNewGeometryCollectionFromSlice
    \/ CallGraphGeometries
    \/ CallGraphUnmarshalJSON
    \/ CallGraphVertices
    \/ CallGraphBoundingBox

SpecGraph == InitGraph /\ [][NextGraph]_vars

ChildrenOf(objects, a) ==
    IF objects[a].type # TypeGeometryCollection THEN {}
    ELSE {objects[a].geometries[i] : i \in DOMAIN objects[a].geometries}

\* The objects n or fewer steps below the objects of the set.
RECURSIVE Below(_, _, _)
Below(objects, set, n) ==
    IF n = 0 THEN set
    ELSE Below(objects,
               set \cup UNION {ChildrenOf(objects, a) : a \in set}, n - 1)

ContainsItself(objects, a) ==
    a \in Below(objects, ChildrenOf(objects, a), Len(objects))

\* The vertices of the object at a, from the vertices of its children.
VerticesOfChildren(objects, a) ==
    AppendAll([k \in DOMAIN objects[a].geometries |->
                  Heap_Vertices(objects, objects[a].geometries[k],
                                StackDepth).val], 1)

-----------------------------------------------------------------------------
(* Specification SpecToggle: one UnmarshalJSON call on a typed geometry, a *)
(* Feature or a FeatureCollection whose exported field SerializeBBox the   *)
(* caller has set or left unset.  The caller keeps the receiver as it was  *)
(* before the call and whether the call returned.                          *)

\* The caller's assignment v.SerializeBBox = b.
WithSerializeBBox(v, b) == [v EXCEPT !.SerializeBBox = b]

\* The receivers that have the field: GeometryCollection has none.
ToggleReceivers ==
    {WithSerializeBBox(v, b) :
        v \in {g \in GeometryReceivers : g.type \in CoordinateTypes}
                \cup FeatureReceivers \cup FeatureCollectionReceivers,
        b \in BOOLEAN}

InitToggle ==
    /\ op = "init"
    /\ arg = <<>>
    /\ out = NoValue
    /\ err = NoError
    /\ recv \in ToggleReceivers
    /\ caller = [before |-> recv, returned |-> FALSE]

\* The call returned, leaving the receiver and the error l.
ToggleDecoded(name, doc, l) ==
    /\ op' = name
    /\ arg' = doc
    /\ out' = NoValue
    /\ err' = l.err
    /\ recv' = l.recv
    /\ caller' = [caller EXCEPT !.returned = TRUE]

CallToggleGeometryUnmarshalJSON ==
    /\ op = "init"
    /\ recv.kind = "Geometry"
    /\ \E doc \in TypedDocs :
        \E l \in {Geometry_UnmarshalJSON(recv, doc)} :
            ToggleDecoded(recv.type \o ".UnmarshalJSON", doc, l)

CallToggleFeatureUnmarshalJSON ==
    /\ op = "init"
    /\ recv.kind = "Feature"
    /\ \E doc \in FeatureDocs :
        \E l \in {Feature_UnmarshalJSON(recv, doc)} :
            ToggleDecoded("Feature.UnmarshalJSON", doc, l)

\* A call that panics does not return.
CallToggleFeatureCollectionUnmarshalJSON ==
    /\ op = "init"
    /\ recv.kind = "FeatureCollection"
    /\ \E doc \in FeatureDocs :
        \E l \in {FeatureCollection_UnmarshalJSON(recv, doc)} :
            /\ op' = "FeatureCollection.UnmarshalJSON"
            /\ arg' = doc
            /\ out' = NoValue
            /\ err' = l.err
            /\ recv' = l.recv
            /\ caller' = [caller EXCEPT !.returned = ~l.panic]

NextToggle ==
    \/ CallToggleGeometryUnmarshalJSON
    \/ CallToggleFeatureUnmarshalJSON
    \/ CallToggleFeatureCollectionUnmarshalJSON

SpecToggle == InitToggle /\ [][NextToggle]_vars

ToggleOps ==
    {t \o ".UnmarshalJSON" : t \in CoordinateTypes}
        \cup {"Feature.UnmarshalJSON", "FeatureCollection.UnmarshalJSON"}

\* C30: a successful UnmarshalJSON on a typed geometry (Point, LineString,
\* MultiPoint, MultiLineString, Polygon, MultiPolygon), on a Feature or on a
\* FeatureCollection replaces only the decoded data and leaves the
\* receiver's SerializeBBox flag with the value it had before the call.
C30_DecodeLeavesToggle ==
    (op \in ToggleOps /\ caller.returned /\ err = NoError) =>
        recv.SerializeBBox = caller.before.SerializeBBox

=============================================================================
